---- MODULE Spec2Model ----
(***************************************************************************)
(* The net-snmp interface of GetSwitchPorts (src/GetSwitchPorts/snmp.py):  *)
(* the four query operations snmpget, snmpgetbulk, snmpwalk and snmptable, *)
(* each of which validates the address, formats a command line, runs it    *)
(* once, and either classifies the failure or parses the output; and the   *)
(* class SwitchInfo built on it (src/GetSwitchPorts/GetSwitchPorts.py).    *)
(*                                                                         *)
(* Representation.  A Python bytes value is a sequence of integers in      *)
(* 0..255.  A Python str is a sequence of Unicode code points.  String     *)
(* literals of the source are written out as code points, with the literal *)
(* in the comment above.  None, str, tuple and list results are tagged     *)
(* records (see NoneVal, StrVal).                                          *)
(***************************************************************************)
EXTENDS Integers, Sequences, FiniteSets, TLC

(***************************************************************************)
(* Bounds of the model.                                                    *)
(***************************************************************************)
\* stderr of the command: at most this many fragments of StderrFragments
MaxErrFrags == 2
\* stdout of snmpget: at most this many fragments of ScalarFragments
MaxOutFrags == 3
\* stdout of snmpgetbulk / snmpwalk / snmptable: at most this many lines
MaxLines == 2
\* portTable of a SwitchInfo: at most this many interfaces
MaxPorts == 2

(***************************************************************************)
(* Python built-ins used by the source, on code-point sequences.           *)
(***************************************************************************)
Min(S) == CHOOSE i \in S : \A j \in S : i <= j
Max(S) == CHOOSE i \in S : \A j \in S : i >= j

\* `needle in hay` for str and for bytes
Contains(needle, hay) ==
    \E i \in 1..(Len(hay) - Len(needle) + 1) :
        SubSeq(hay, i, i + Len(needle) - 1) = needle

\* str.find, 1-based; 0 when absent
Find(needle, hay) ==
    LET hits == {i \in 1..(Len(hay) - Len(needle) + 1) :
                    SubSeq(hay, i, i + Len(needle) - 1) = needle}
    IN  IF hits = {} THEN 0 ELSE Min(hits)

\* str.rsplit(sep, 1): one split at the last occurrence of sep (a variant
\* of split1 that C11 must tell apart)
split1_last(s, sep) ==
    LET hits == {i \in 1..(Len(s) - Len(sep) + 1) :
                    SubSeq(s, i, i + Len(sep) - 1) = sep}
        i == Max(hits)
    IN  IF hits = {} THEN <<s>>
        ELSE <<SubSeq(s, 1, i - 1), SubSeq(s, i + Len(sep), Len(s))>>

\* str.split(sep, 1): at most one split, at the first occurrence of sep
split1(s, sep) ==
    LET i == Find(sep, s)
    IN  IF i = 0 THEN <<s>>
        ELSE <<SubSeq(s, 1, i - 1), SubSeq(s, i + Len(sep), Len(s))>>

\* bytes.splitlines(): breaks at \n, \r and \r\n; no empty last line
RECURSIVE splitlines(_)
splitlines(b) ==
    IF b = <<>> THEN <<>>
    ELSE LET brk == {i \in 1..Len(b) : b[i] \in {10, 13}}
         IN  IF brk = {} THEN <<b>>
             ELSE LET i == Min(brk)
                      w == IF b[i] = 13 /\ i < Len(b) /\ b[i + 1] = 10
                           THEN 2 ELSE 1
                  IN  <<SubSeq(b, 1, i - 1)>>
                          \o splitlines(SubSeq(b, i + w, Len(b)))

\* str.join
RECURSIVE join(_, _)
join(sep, items) ==
    IF items = <<>> THEN <<>>
    ELSE IF Len(items) = 1 THEN items[1]
    ELSE items[1] \o sep \o join(sep, Tail(items))

\* str(n) / '{}'.format(n) of a non-negative int: its decimal digits
RECURSIVE Str(_)
Str(n) == IF n < 10 THEN <<48 + n>> ELSE Str(n \div 10) \o <<48 + (n % 10)>>

IsCont(x) == x >= 128 /\ x <= 191

\* Number of bytes of the well-formed UTF-8 sequence that starts b; 0 when
\* b starts with no well-formed sequence (strict decoding raises)
Utf8Width(b) ==
    LET n  == Len(b)
        b1 == b[1]
        c(i, lo, hi) == n >= i /\ b[i] >= lo /\ b[i] <= hi
    IN  IF b1 < 128 THEN 1
        ELSE IF b1 >= 194 /\ b1 <= 223 /\ c(2, 128, 191) THEN 2
        ELSE IF b1 = 224 /\ c(2, 160, 191) /\ c(3, 128, 191) THEN 3
        ELSE IF b1 = 237 /\ c(2, 128, 159) /\ c(3, 128, 191) THEN 3
        ELSE IF b1 >= 225 /\ b1 <= 239 /\ b1 # 237
                /\ c(2, 128, 191) /\ c(3, 128, 191) THEN 3
        ELSE IF b1 = 240 /\ c(2, 144, 191) /\ c(3, 128, 191)
                /\ c(4, 128, 191) THEN 4
        ELSE IF b1 >= 241 /\ b1 <= 243 /\ c(2, 128, 191) /\ c(3, 128, 191)
                /\ c(4, 128, 191) THEN 4
        ELSE IF b1 = 244 /\ c(2, 128, 143) /\ c(3, 128, 191)
                /\ c(4, 128, 191) THEN 4
        ELSE 0

\* The code point of the well-formed w-byte sequence that starts b
Utf8CodePoint(b, w) ==
    IF w = 1 THEN b[1]
    ELSE IF w = 2 THEN (b[1] - 192) * 64 + (b[2] - 128)
    ELSE IF w = 3 THEN (b[1] - 224) * 4096 + (b[2] - 128) * 64 + (b[3] - 128)
    ELSE (b[1] - 240) * 262144 + (b[2] - 128) * 4096
             + (b[3] - 128) * 64 + (b[4] - 128)

\* bytes.decode('utf-8'): ok = FALSE stands for UnicodeDecodeError.  A byte
\* that is no continuation byte starts a character in every well-formed
\* text, so b is well formed exactly when the two parts on either side of
\* such a byte are; b with no such byte after the first is one character
\* or ill formed.
RECURSIVE decode(_)
decode(b) ==
    LET n == Len(b)
        cuts == {i \in 2..n : ~IsCont(b[i])}
        after == {i \in cuts : i > n \div 2}
        h == IF after # {} THEN Min(after) ELSE Max(cuts)
        left == decode(SubSeq(b, 1, h - 1))
        right == decode(SubSeq(b, h, n))
    IN  IF n = 0 THEN [ok |-> TRUE, text |-> <<>>]
        ELSE IF cuts = {}
             THEN IF Utf8Width(b) = n
                  THEN [ok |-> TRUE, text |-> <<Utf8CodePoint(b, n)>>]
                  ELSE [ok |-> FALSE, text |-> <<>>]
        ELSE IF left.ok /\ right.ok
             THEN [ok |-> TRUE, text |-> left.text \o right.text]
             ELSE [ok |-> FALSE, text |-> <<>>]

HexDigit(d) == IF d < 10 THEN 48 + d ELSE 87 + d

\* repr of one byte inside a bytes literal quoted with q
ByteRepr(x, q) ==
    IF x = q \/ x = 92 THEN <<92, x>>
    ELSE IF x = 9  THEN <<92, 116>>
    ELSE IF x = 10 THEN <<92, 110>>
    ELSE IF x = 13 THEN <<92, 114>>
    ELSE IF x < 32 \/ x >= 127
         THEN <<92, 120, HexDigit(x \div 16), HexDigit(x % 16)>>
    ELSE <<x>>

\* the escapes of all bytes of b, in order
RECURSIVE BytesReprBody(_, _)
BytesReprBody(b, q) ==
    IF b = <<>> THEN <<>>
    ELSE IF Len(b) = 1 THEN ByteRepr(b[1], q)
    ELSE BytesReprBody(SubSeq(b, 1, Len(b) \div 2), q)
             \o BytesReprBody(SubSeq(b, Len(b) \div 2 + 1, Len(b)), q)

\* str(b) of a bytes value b: its literal, b'...' with escapes (b"..." when
\* b holds a single quote and no double quote)
BytesStr(b) ==
    LET q == IF (\E i \in 1..Len(b) : b[i] = 39)
                /\ ~(\E i \in 1..Len(b) : b[i] = 34)
             THEN 34 ELSE 39
    IN  <<98, q>> \o BytesReprBody(b, q) \o <<q>>

(***************************************************************************)
(* Python values and call outcomes.                                        *)
(***************************************************************************)
NoneVal == [tag |-> "None", s |-> <<>>, items |-> <<>>]
StrVal(t) == [tag |-> "str", s |-> t, items |-> <<>>]
TupleVal(xs) == [tag |-> "tuple", s |-> <<>>, items |-> xs]
ListVal(xs) == [tag |-> "list", s |-> <<>>, items |-> xs]
\* a dict, as its (key, value) entries in insertion order
DictVal(entries) == [tag |-> "dict", s |-> <<>>, items |-> entries]
\* an int, with str() of it
IntVal(n) == [tag |-> "int", s |-> Str(n), items |-> <<>>]
\* an ipaddress.IPv4Address or IPv6Address, with str() of it
AddrVal(version, t) ==
    [tag |-> IF version = 4 THEN "IPv4Address" ELSE "IPv6Address",
     s |-> t, items |-> <<>>]

\* '{0}'.format(v), which is str(v), for None, a str, an int or an address
format(v) == IF v.tag = "None" THEN <<78, 111, 110, 101>> ELSE v.s

\* How a call, or a check inside it, ends.  The text of the built-in
\* exceptions (UnicodeDecodeError, IndexError, KeyError, TypeError) is left
\* empty; the messages the source formats itself are kept.
Returned(v) == [kind |-> "return", exc |-> "", msg |-> <<>>, value |-> v]
Raised(e, m) == [kind |-> "raise", exc |-> e, msg |-> m, value |-> NoneVal]
\* a check that raised nothing: control goes on to the next statement
Passed == [kind |-> "pass", exc |-> "", msg |-> <<>>, value |-> NoneVal]
\* no call has ended yet
Pending == [kind |-> "pending", exc |-> "", msg |-> <<>>, value |-> NoneVal]

(***************************************************************************)
(* String literals of src/GetSwitchPorts/snmp.py.                          *)
(***************************************************************************)
\* b'No Response from'
NoResponseFrom ==
    <<78, 111, 32, 82, 101, 115, 112, 111, 110, 115, 101, 32, 102, 114, 111,
    109>>

\* b'Unknown host'
UnknownHost ==
    <<85, 110, 107, 110, 111, 119, 110, 32, 104, 111, 115, 116>>

\* b'Was that a table?'
WasThatATable ==
    <<87, 97, 115, 32, 116, 104, 97, 116, 32, 97, 32, 116, 97, 98, 108, 101,
    63>>

\* 'No Such Instance'
NoSuchInstance ==
    <<78, 111, 32, 83, 117, 99, 104, 32, 73, 110, 115, 116, 97, 110, 99,
    101>>

\* ' = '
Separator ==
    <<32, 61, 32>>

\* 'Invalid Address: '
InvalidAddressHead ==
    <<73, 110, 118, 97, 108, 105, 100, 32, 65, 100, 100, 114, 101, 115, 115,
    58, 32>>

\* ' does not appear to be a valid hostname / IP address'
InvalidAddressTail ==
    <<32, 100, 111, 101, 115, 32, 110, 111, 116, 32, 97, 112, 112, 101, 97,
    114, 32, 116, 111, 32, 98, 101, 32, 97, 32, 118, 97, 108, 105, 100, 32,
    104, 111, 115, 116, 110, 97, 109, 101, 32, 47, 32, 73, 80, 32, 97, 100,
    100, 114, 101, 115, 115>>

\* 'Timeout: no response received from '
TimeoutHead ==
    <<84, 105, 109, 101, 111, 117, 116, 58, 32, 110, 111, 32, 114, 101, 115,
    112, 111, 110, 115, 101, 32, 114, 101, 99, 101, 105, 118, 101, 100, 32,
    102, 114, 111, 109, 32>>

\* ' -r 0 -v 2c -c '
CmdRetriesVersion ==
    <<32, 45, 114, 32, 48, 32, 45, 118, 32, 50, 99, 32, 45, 99, 32>>

\* delimiter = '\x1E', the ASCII record separator
delimiter == 30

(***************************************************************************)
(* validate_ip_address                                                     *)
(***************************************************************************)
\* str.split(sep) with no limit
RECURSIVE split(_, _)
split(s, sep) ==
    LET i == Find(sep, s)
    IN  IF i = 0 THEN <<s>>
        ELSE <<SubSeq(s, 1, i - 1)>>
                 \o split(SubSeq(s, i + Len(sep), Len(s)), sep)

RECURSIVE DecimalValue(_)
DecimalValue(s) ==
    IF s = <<>> THEN 0
    ELSE DecimalValue(SubSeq(s, 1, Len(s) - 1)) * 10 + (s[Len(s)] - 48)

\* ipaddress.IPv4Address(s): ok = FALSE stands for AddressValueError,
\* otherwise octets are the four bytes of the address
IPv4Address(s) ==
    LET \* _parse_octet: 1 to 3 ASCII digits, no leading zero, <= 255
        OctetOk(o) ==
            /\ Len(o) >= 1 /\ Len(o) <= 3
            /\ \A i \in 1..Len(o) : o[i] >= 48 /\ o[i] <= 57
            /\ ~(Len(o) > 1 /\ o[1] = 48)
            /\ DecimalValue(o) <= 255
        address(parts) ==
            IF Len(parts) = 4 /\ \A i \in 1..4 : OctetOk(parts[i])
            THEN [ok |-> TRUE,
                  octets |-> [i \in 1..4 |-> DecimalValue(parts[i])]]
            ELSE [ok |-> FALSE, octets |-> <<>>]
    IN  address(split(s, <<46>>))

\* str() of an IPv4 address given by its bytes
dotted(octets) == join(<<46>>, [i \in 1..4 |-> Str(octets[i])])

\* int(s, 16) for a text of hex digits
RECURSIVE HexValue(_)
HexValue(s) ==
    IF s = <<>> THEN 0
    ELSE LET digit(c) == IF c <= 57 THEN c - 48
                         ELSE IF c <= 70 THEN c - 55 ELSE c - 87
         IN  HexValue(SubSeq(s, 1, Len(s) - 1)) * 16 + digit(s[Len(s)])

\* '%x' % n
RECURSIVE Hex(_)
Hex(n) ==
    IF n < 16 THEN <<HexDigit(n)>>
    ELSE Hex(n \div 16) \o <<HexDigit(n % 16)>>

\* ipaddress.IPv6Address(s): ok = FALSE stands for AddressValueError,
\* otherwise hextets are the eight 16-bit groups of the address and scope
\* is the scope id after '%' (empty when there is none).  The steps are
\* those of __init__, _split_scope_id and _ip_int_from_string.
IPv6Address(s) ==
    LET invalid == [ok |-> FALSE, hextets |-> <<>>, scope |-> <<>>]
        \* _parse_hextet: 1 to 4 of the characters 0-9, A-F, a-f
        hextet_ok(h) ==
            /\ h # <<>> /\ Len(h) <= 4
            /\ \A i \in 1..Len(h) :
                   h[i] \in (48..57) \cup (65..70) \cup (97..102)
        \* the first hi parts, zero groups, the last lo parts
        hextets(parts, n, hi, lo, scope) ==
            IF \A i \in (1..hi) \cup ((n - lo + 1)..n) : hextet_ok(parts[i])
            THEN [ok |-> TRUE,
                  hextets |-> [i \in 1..8 |->
                                  IF i <= hi \/ i > 8 - lo
                                  THEN HexValue(parts[IF i <= hi THEN i
                                                      ELSE n - (8 - i)])
                                  ELSE 0],
                  scope |-> scope]
            ELSE invalid
        \* the parts around the one '::', found at parts[skip]
        skipping(parts, n, hi, lo, scope) ==
            IF /\ parts[1] = <<>> => hi = 0
               /\ parts[n] = <<>> => lo = 0
               /\ 8 - (hi + lo) >= 1
            THEN hextets(parts, n, hi, lo, scope)
            ELSE invalid
        \* the parts with the dotted quad at the end turned into two groups
        from_parts(parts, n, skips, scope) ==
            IF n > 9 \/ Cardinality(skips) > 1 THEN invalid
            ELSE IF skips # {}
            THEN skipping(parts, n,
                          IF parts[1] = <<>> THEN Min(skips) - 2
                          ELSE Min(skips) - 1,
                          IF parts[n] = <<>> THEN n - Min(skips) - 1
                          ELSE n - Min(skips),
                          scope)
            ELSE IF n = 8 /\ parts[1] # <<>> /\ parts[n] # <<>>
            THEN hextets(parts, 8, 8, 0, scope)
            ELSE invalid
        with_quad(parts, v4, scope) ==
            IF Len(parts) < 3 THEN invalid
            ELSE IF ~Contains(<<46>>, parts[Len(parts)])
            THEN from_parts(parts, Len(parts),
                            {i \in 2..(Len(parts) - 1) : parts[i] = <<>>},
                            scope)
            ELSE IF ~v4.ok THEN invalid
            ELSE from_parts(SubSeq(parts, 1, Len(parts) - 1)
                                \o <<Hex(v4.octets[1] * 256 + v4.octets[2]),
                                     Hex(v4.octets[3] * 256 + v4.octets[4])>>,
                            Len(parts) + 1,
                            {i \in 2..(Len(parts) - 1) : parts[i] = <<>>},
                            scope)
        from_text(parts, scope) ==
            with_quad(parts, IPv4Address(parts[Len(parts)]), scope)
        split_scope_id(pct) ==
            IF pct = 0 THEN from_text(split(s, <<58>>), <<>>)
            ELSE IF pct = Len(s) \/ Contains(<<37>>, SubSeq(s, pct + 1,
                Len(s)))
            THEN invalid
            ELSE from_text(split(SubSeq(s, 1, pct - 1), <<58>>),
                           SubSeq(s, pct + 1, Len(s)))
    IN  IF Contains(<<47>>, s) THEN invalid
        ELSE split_scope_id(Find(<<37>>, s))

\* IPv6Address._compress_hextets and the join of _string_from_ip_int: the
\* leftmost longest run of two or more zero groups is written '::'
compress_hextets(w) ==
    LET runlen(i) ==
            IF w[i] # 0 \/ (i > 1 /\ w[i - 1] = 0) THEN 0
            ELSE Max({k \in 1..(9 - i) : \A j \in i..(i + k - 1) : w[j] = 0})
        hex(a, b) == join(<<58>>, [i \in 1..(b - a + 1) |-> Hex(w[a + i - 1])])
        compressed(runs, best) ==
            IF best > 1
            THEN hex(1, Min({i \in 1..8 : runs[i] = best}) - 1)
                     \o <<58, 58>>
                     \o hex(Min({i \in 1..8 : runs[i] = best}) + best, 8)
            ELSE hex(1, 8)
        longest(runs) == compressed(runs, Max({runs[i] : i \in 1..8}))
    IN  longest([i \in 1..8 |-> runlen(i)])

\* ipaddress.ip_address(s) followed by str(): ok = FALSE stands for
\* ValueError; version tells IPv4Address from IPv6Address
ip_address(s) ==
    LET address(a4, a6) ==
            IF a4.ok
            THEN [ok |-> TRUE, version |-> 4, text |-> dotted(a4.octets)]
            ELSE IF a6.ok
            THEN [ok |-> TRUE, version |-> 6,
                  text |-> compress_hextets(a6.hextets)
                               \o (IF a6.scope = <<>> THEN <<>>
                                   ELSE <<37>> \o a6.scope)]
            ELSE [ok |-> FALSE, version |-> 0, text |-> <<>>]
    IN  address(IPv4Address(s), IPv6Address(s))

\* validate_ip_address that takes the name for the address when the
\* resolver fails (a variant C1 must tell apart)
validate_ip_address_unresolved(ipaddress, gai) ==
    LET validated(a) ==
            IF gai.ok /\ a.ok THEN Returned(AddrVal(a.version, a.text))
            ELSE Returned(StrVal(ipaddress))
    IN  validated(ip_address(gai.addr))

\* gai is what getaddrinfo(ipaddress, None) did: ok = FALSE stands for
\* gaierror (or the UnicodeError of the idna codec, a ValueError),
\* otherwise addr is [0][4][0] of its result.
validate_ip_address(ipaddress, gai) ==
    LET validated(a) ==
            IF gai.ok /\ a.ok THEN Returned(AddrVal(a.version, a.text))
            ELSE Raised("SNMPError",
                        InvalidAddressHead \o ipaddress
                            \o InvalidAddressTail)
    IN  validated(ip_address(gai.addr))

\* validate_ip_address handed any Python object.  getaddrinfo (line 46)
\* raises gaierror for None, which line 49 turns into the SNMPError whose
\* message holds str(None); for any other object that is not a str, such
\* as an address object, it raises TypeError, which line 49 does not catch.
validate_ip_address_of(value, gai) ==
    IF value.tag = "str" THEN validate_ip_address(value.s, gai)
    ELSE IF value.tag = "None"
    THEN Raised("SNMPError",
                InvalidAddressHead \o <<78, 111, 110, 101>>
                    \o InvalidAddressTail)
    ELSE Raised("TypeError", <<>>)

(***************************************************************************)
(* The failure checks.  cmd is the CompletedProcess:                       *)
(* [returncode, stdout, stderr].                                           *)
(***************************************************************************)
\* check_for_timeout looking at stdout instead of stderr (a variant C2 must
\* tell apart)
check_for_timeout_stdout(cmd, ipaddress, port) ==
    IF Contains(NoResponseFrom, cmd.stdout)
    THEN Raised("SNMPError",
        TimeoutHead \o ipaddress \o <<58>> \o format(port))
    ELSE Passed

check_for_timeout(cmd, ipaddress, port) ==
    IF Contains(NoResponseFrom, cmd.stderr)
    THEN Raised("SNMPError",
        TimeoutHead \o ipaddress \o <<58>> \o format(port))
    ELSE Passed

\* Defined by the source, and called by none of the four operations.
check_for_unknown_host(cmd, ipaddress) ==
    LET
        \* 'Unknown host: the SNMP command could not identify '
        UnknownHostHead ==
            <<85, 110, 107, 110, 111, 119, 110, 32, 104, 111, 115, 116, 58, 32, 116,
            104, 101, 32, 83, 78, 77, 80, 32, 99, 111, 109, 109, 97, 110, 100, 32,
            99, 111, 117, 108, 100, 32, 110, 111, 116, 32, 105, 100, 101, 110, 116,
            105, 102, 121, 32>>
        \* ' as a valid host.'
        UnknownHostTail ==
            <<32, 97, 115, 32, 97, 32, 118, 97, 108, 105, 100, 32, 104, 111, 115,
            116, 46>>
    IN  IF Contains(UnknownHost, cmd.stderr)
        THEN Raised("SNMPError", UnknownHostHead \o ipaddress \o UnknownHostTail)
        ELSE Passed

handle_unknown_error(cmdstr, cmd) ==
    LET
        \* 'The SNMP command failed. \nAttempted Command: '
        UnknownErrorHead ==
            <<84, 104, 101, 32, 83, 78, 77, 80, 32, 99, 111, 109, 109, 97, 110, 100,
            32, 102, 97, 105, 108, 101, 100, 46, 32, 10, 65, 116, 116, 101, 109,
            112, 116, 101, 100, 32, 67, 111, 109, 109, 97, 110, 100, 58, 32>>
        \* '\n Error received: '
        UnknownErrorMid ==
            <<10, 32, 69, 114, 114, 111, 114, 32, 114, 101, 99, 101, 105, 118, 101,
            100, 58, 32>>
    IN  Raised("ChildProcessError",
               UnknownErrorHead \o cmdstr \o UnknownErrorMid
                   \o BytesStr(cmd.stderr))

(***************************************************************************)
(* snmpget                                                                 *)
(***************************************************************************)
snmpget_cmdstr(timeout, community, ipaddress, port, oid) ==
    LET
        \* 'snmpget -Oqv -Pe -t '
        SnmpgetCmdHead ==
            <<115, 110, 109, 112, 103, 101, 116, 32, 45, 79, 113, 118, 32, 45, 80,
            101, 32, 45, 116, 32>>
    IN  SnmpgetCmdHead \o Str(timeout) \o CmdRetriesVersion \o community
            \o <<32>> \o ipaddress \o <<58>> \o format(port) \o <<32>> \o oid

\* snmpget that strips the output and never answers None (a variant C7
\* must tell apart)
snmpget_result_stripped(cmdstr, cmd, ipaddress, port) ==
    IF cmd.returncode # 0
    THEN handle_unknown_error(cmdstr, cmd)
    ELSE LET cmdoutput == decode(cmd.stdout)
             n == Len(cmdoutput.text)
         IN  IF ~cmdoutput.ok THEN Raised("UnicodeDecodeError", <<>>)
             ELSE IF n > 0 /\ cmdoutput.text[n] = 10
                  THEN Returned(StrVal(SubSeq(cmdoutput.text, 1, n - 1)))
                  ELSE Returned(StrVal(cmdoutput.text))

\* snmpget that looks for the timeout marker whatever the exit status (a
\* variant C21 must tell apart)
snmpget_result_always_checked(cmdstr, cmd, ipaddress, port) ==
    LET t == check_for_timeout(cmd, ipaddress, port)
    IN  IF t.kind = "raise" THEN t
        ELSE IF cmd.returncode # 0 THEN handle_unknown_error(cmdstr, cmd)
        ELSE LET cmdoutput == decode(cmd.stdout)
             IN  IF ~cmdoutput.ok THEN Raised("UnicodeDecodeError", <<>>)
                 ELSE IF Contains(NoSuchInstance, cmdoutput.text)
                      THEN Returned(NoneVal)
                      ELSE Returned(StrVal(cmdoutput.text))

\* The statements after run(): lines 118-135
snmpget_result(cmdstr, cmd, ipaddress, port) ==
    IF cmd.returncode # 0
    THEN LET t == check_for_timeout(cmd, ipaddress, port)
         IN  IF t.kind = "raise" THEN t
             ELSE handle_unknown_error(cmdstr, cmd)
    ELSE LET cmdoutput == decode(cmd.stdout)
         IN  IF ~cmdoutput.ok THEN Raised("UnicodeDecodeError", <<>>)
             ELSE IF Contains(NoSuchInstance, cmdoutput.text)
                  THEN Returned(NoneVal)
                  ELSE Returned(StrVal(cmdoutput.text))

(***************************************************************************)
(* snmpgetbulk                                                             *)
(***************************************************************************)
\* oids is the argument as passed: a list of str, or one str, which lines
\* 155-156 wrap into a list
snmpgetbulk_cmdstr(timeout, community, ipaddress, port, oids) ==
    LET
        \* 'snmpget -OQfn -Pe -t '
        SnmpgetbulkCmdHead ==
            <<115, 110, 109, 112, 103, 101, 116, 32, 45, 79, 81, 102, 110, 32, 45,
            80, 101, 32, 45, 116, 32>>
        oidlist == IF oids.tag = "list"
                   THEN [i \in 1..Len(oids.items) |-> oids.items[i].s]
                   ELSE <<oids.s>>
    IN  SnmpgetbulkCmdHead \o Str(timeout) \o CmdRetriesVersion \o community
            \o <<32>> \o ipaddress \o <<58>> \o format(port) \o <<32>>
            \o join(<<32>>, oidlist)

\* The loop of lines 173-185 over the lines that are left
\* The loop passing over a line that has no ' = ' (a variant of
\* snmpgetbulk_loop that C24 must tell apart)
RECURSIVE snmpgetbulk_loop_skipping(_)
snmpgetbulk_loop_skipping(cmdoutput) ==
    IF cmdoutput = <<>> THEN Returned(ListVal(<<>>))
    ELSE LET line == decode(cmdoutput[1])
             item == split1(line.text, Separator)
             rest == snmpgetbulk_loop_skipping(Tail(cmdoutput))
         IN  IF ~line.ok THEN Raised("UnicodeDecodeError", <<>>)
             ELSE IF Len(item) < 2 \/ rest.kind = "raise" THEN rest
             ELSE LET value == IF Contains(NoSuchInstance, item[2])
                               THEN NoneVal ELSE StrVal(item[2])
                  IN  Returned(ListVal(
                          <<TupleVal(<<StrVal(item[1]), value>>)>>
                              \o rest.value.items))

RECURSIVE snmpgetbulk_loop(_)
snmpgetbulk_loop(cmdoutput) ==
    IF cmdoutput = <<>> THEN Returned(ListVal(<<>>))
    ELSE LET line == decode(cmdoutput[1])
             item == split1(line.text, Separator)
         IN  IF ~line.ok THEN Raised("UnicodeDecodeError", <<>>)
             ELSE IF Len(item) < 2 THEN Raised("IndexError", <<>>)
             ELSE LET value == IF Contains(NoSuchInstance, item[2])
                               THEN NoneVal ELSE StrVal(item[2])
                      rest == snmpgetbulk_loop(Tail(cmdoutput))
                  IN  IF rest.kind = "raise" THEN rest
                      ELSE Returned(ListVal(
                               <<TupleVal(<<StrVal(item[1]), value>>)>>
                                   \o rest.value.items))

\* snmpgetbulk that puts each new pair in front of the list (a variant C10
\* must tell apart)
snmpgetbulk_result_reversed(cmdstr, cmd, ipaddress, port) ==
    LET r == snmpgetbulk_loop(splitlines(cmd.stdout))
        n == Len(r.value.items)
    IN  IF cmd.returncode # 0 THEN handle_unknown_error(cmdstr, cmd)
        ELSE IF r.kind = "raise" THEN r
        ELSE Returned(ListVal([i \in 1..n |-> r.value.items[n + 1 - i]]))

\* The statements after run(): lines 163-185
snmpgetbulk_result(cmdstr, cmd, ipaddress, port) ==
    IF cmd.returncode # 0
    THEN LET t == check_for_timeout(cmd, ipaddress, port)
         IN  IF t.kind = "raise" THEN t
             ELSE handle_unknown_error(cmdstr, cmd)
    ELSE snmpgetbulk_loop(splitlines(cmd.stdout))

(***************************************************************************)
(* snmpwalk                                                                *)
(***************************************************************************)
snmpwalk_cmdstr(timeout, community, ipaddress, port, oid) ==
    LET
        \* 'snmpwalk -OQfn -Pe -t '
        SnmpwalkCmdHead ==
            <<115, 110, 109, 112, 119, 97, 108, 107, 32, 45, 79, 81, 102, 110, 32,
            45, 80, 101, 32, 45, 116, 32>>
    IN  SnmpwalkCmdHead \o Str(timeout) \o CmdRetriesVersion \o community
            \o <<32>> \o ipaddress \o <<58>> \o format(port) \o <<32>> \o oid

\* The loop of lines 219-231 over the lines that are left
RECURSIVE snmpwalk_loop(_)
snmpwalk_loop(cmdoutput) ==
    IF cmdoutput = <<>> THEN Returned(ListVal(<<>>))
    ELSE LET line == decode(cmdoutput[1])
             item == split1(line.text, Separator)
         IN  IF ~line.ok THEN Raised("UnicodeDecodeError", <<>>)
             ELSE IF Len(item) < 2 THEN Raised("IndexError", <<>>)
             ELSE LET value == IF Contains(NoSuchInstance, item[2])
                               THEN NoneVal ELSE StrVal(item[2])
                      rest == snmpwalk_loop(Tail(cmdoutput))
                  IN  IF rest.kind = "raise" THEN rest
                      ELSE Returned(ListVal(
                               <<TupleVal(<<StrVal(item[1]), value>>)>>
                                   \o rest.value.items))

\* snmpwalk without the timeout check (a variant that C12 must tell apart)
snmpwalk_result_unclassified(cmdstr, cmd, ipaddress, port) ==
    IF cmd.returncode # 0
    THEN handle_unknown_error(cmdstr, cmd)
    ELSE snmpwalk_loop(splitlines(cmd.stdout))

\* The statements after run(): lines 209-231
snmpwalk_result(cmdstr, cmd, ipaddress, port) ==
    IF cmd.returncode # 0
    THEN LET t == check_for_timeout(cmd, ipaddress, port)
         IN  IF t.kind = "raise" THEN t
             ELSE handle_unknown_error(cmdstr, cmd)
    ELSE snmpwalk_loop(splitlines(cmd.stdout))

(***************************************************************************)
(* snmptable                                                               *)
(***************************************************************************)
snmptable_cmdstr(timeout, community, ipaddress, port, oid) ==
    LET
        \* 'snmptable -m ALL -Pe -t '
        SnmptableCmdHead ==
            <<115, 110, 109, 112, 116, 97, 98, 108, 101, 32, 45, 109, 32, 65, 76,
            76, 32, 45, 80, 101, 32, 45, 116, 32>>
        \* ' -r 0 -v 2c -Cif '
        SnmptableCmdMid ==
            <<32, 45, 114, 32, 48, 32, 45, 118, 32, 50, 99, 32, 45, 67, 105, 102,
            32>>
        \* ' -c '
        CmdCommunityFlag ==
            <<32, 45, 99, 32>>
    IN  SnmptableCmdHead \o Str(timeout) \o SnmptableCmdMid \o <<delimiter>>
            \o CmdCommunityFlag \o community \o <<32>> \o ipaddress \o <<58>>
            \o format(port) \o <<32>> \o oid

\* [item.decode('utf-8') for item in cmdoutput]: ok = FALSE when one fails
RECURSIVE decode_all(_)
decode_all(lines) ==
    IF lines = <<>> THEN [ok |-> TRUE, lines |-> <<>>]
    ELSE LET first == decode(lines[1])
             rest == decode_all(Tail(lines))
         IN  IF first.ok /\ rest.ok
             THEN [ok |-> TRUE, lines |-> <<first.text>> \o rest.lines]
             ELSE [ok |-> FALSE, lines |-> <<>>]

\* csv.reader(..., delimiter=delimiter) in the default dialect (quotechar
\* '"', doublequote, not strict) is a state machine over the characters of
\* the lines it is given, none of which holds a line break here.  Its state:
\* the parser state, the field being read, the fields of the record being
\* read, and the records read so far.
csv_start ==
    [state |-> "START_RECORD", field |-> <<>>, fields |-> <<>>,
     records |-> <<>>]

\* The field being read is complete
csv_save_field(st) ==
    [st EXCEPT !.fields = Append(@, StrVal(st.field)), !.field = <<>>]

\* parse_add_char of the reader: c joins the field being read, unless the
\* field already holds csv.field_size_limit() = 131072 characters, which is
\* _csv.Error('field larger than field limit (131072)')
parse_add_char(st, c) ==
    IF Len(st.field) >= 131072 THEN [st EXCEPT !.state = "ERROR"]
    ELSE [st EXCEPT !.field = Append(@, c)]

\* One character c of a line; nothing more is read after an error
csv_char(st, c) ==
    IF st.state = "ERROR" THEN st
    ELSE IF st.state \in {"START_RECORD", "START_FIELD"}
    THEN IF c = 34 THEN [st EXCEPT !.state = "IN_QUOTED_FIELD"]
         ELSE IF c = delimiter
              THEN [csv_save_field(st) EXCEPT !.state = "START_FIELD"]
         ELSE parse_add_char([st EXCEPT !.state = "IN_FIELD"], c)
    ELSE IF st.state = "IN_FIELD"
    THEN IF c = delimiter
         THEN [csv_save_field(st) EXCEPT !.state = "START_FIELD"]
         ELSE parse_add_char(st, c)
    ELSE IF st.state = "IN_QUOTED_FIELD"
    THEN IF c = 34 THEN [st EXCEPT !.state = "QUOTE_IN_QUOTED_FIELD"]
         ELSE parse_add_char(st, c)
    ELSE \* QUOTE_IN_QUOTED_FIELD
         IF c = 34
         THEN parse_add_char([st EXCEPT !.state = "IN_QUOTED_FIELD"], c)
         ELSE IF c = delimiter
              THEN [csv_save_field(st) EXCEPT !.state = "START_FIELD"]
         ELSE parse_add_char([st EXCEPT !.state = "IN_FIELD"], c)

\* The end of a line: the record ends, unless a quoted field is open
csv_eol(st) ==
    IF st.state = "ERROR" THEN st
    ELSE IF st.state = "START_RECORD"
    THEN [st EXCEPT !.records = Append(@, <<>>)]
    ELSE IF st.state = "IN_QUOTED_FIELD" THEN st
    ELSE [state |-> "START_RECORD", field |-> <<>>, fields |-> <<>>,
          records |-> Append(st.records, csv_save_field(st).fields)]

\* The characters of one line, then its end
RECURSIVE csv_line(_, _)
csv_line(st, line) ==
    IF line = <<>> THEN st
    ELSE csv_char(csv_line(st, SubSeq(line, 1, Len(line) - 1)),
                  line[Len(line)])

RECURSIVE csv_lines(_, _)
csv_lines(st, lines) ==
    IF lines = <<>> THEN st
    ELSE csv_eol(csv_line(csv_lines(st, SubSeq(lines, 1, Len(lines) - 1)),
                          lines[Len(lines)]))

\* Every record csv.reader yields from the lines: a quoted field still open
\* when the lines run out ends the last record.  ok is FALSE when the
\* reader raised _csv.Error.
csv_reader(lines) ==
    LET st == csv_lines(csv_start, lines)
    IN  IF st.state = "ERROR" THEN [ok |-> FALSE, records |-> <<>>]
        ELSE IF st.state = "IN_QUOTED_FIELD"
        THEN [ok |-> TRUE,
              records |-> Append(st.records, csv_save_field(st).fields)]
        ELSE [ok |-> TRUE, records |-> st.records]

\* d[key] = value on a dict: an existing key keeps its place
RECURSIVE dict_set(_, _, _)
dict_set(entries, key, value) ==
    IF entries = <<>> THEN <<TupleVal(<<key, value>>)>>
    ELSE IF entries[1].items[1] = key
         THEN <<TupleVal(<<key, value>>)>> \o Tail(entries)
         ELSE <<entries[1]>> \o dict_set(Tail(entries), key, value)

\* dict(zip(fieldnames, row)), then the short-row / long-row rule of
\* csv.DictReader (restkey = None, restval = None)
RECURSIVE dict_zip(_, _, _)
dict_zip(entries, fieldnames, row) ==
    IF fieldnames = <<>> /\ row = <<>> THEN entries
    ELSE IF fieldnames = <<>> THEN dict_set(entries, NoneVal, ListVal(row))
    ELSE IF row = <<>>
         THEN dict_zip(dict_set(entries, fieldnames[1], NoneVal),
                       Tail(fieldnames), <<>>)
    ELSE dict_zip(dict_set(entries, fieldnames[1], row[1]),
                  Tail(fieldnames), Tail(row))

\* [element for element in csv.DictReader(lines, delimiter=delimiter)]:
\* the first record is the header, blank records after it are skipped
RECURSIVE DictReaderRows(_, _)
DictReaderRows(fieldnames, records) ==
    IF records = <<>> THEN <<>>
    ELSE LET row == records[1]
         IN  IF row = <<>> THEN DictReaderRows(fieldnames, Tail(records))
             ELSE <<DictVal(dict_zip(<<>>, fieldnames, row))>>
                      \o DictReaderRows(fieldnames, Tail(records))

\* ok is FALSE when the reader raised _csv.Error
DictReader(lines) ==
    LET rows(records) ==
            IF records = <<>> THEN <<>>
            ELSE DictReaderRows(records[1], Tail(records))
        read(r) == [ok |-> r.ok, rows |-> rows(r.records)]
    IN  read(csv_reader(lines))

\* d[key]: Passed stands for KeyError
dict_get(d, key) ==
    LET hits == {i \in 1..Len(d.items) : d.items[i].items[1] = key}
    IN  IF hits = {} THEN Passed
        ELSE Returned(d.items[CHOOSE i \in hits : TRUE].items[2])

\* a < b on str: by code point at the first difference, a proper prefix
\* first
StrLess(a, b) ==
    LET n == IF Len(a) < Len(b) THEN Len(a) ELSE Len(b)
        diff == {i \in 1..n : a[i] # b[i]}
    IN  IF diff = {} THEN Len(a) < Len(b)
        ELSE a[Min(diff)] < b[Min(diff)]

\* Insert row x before the first row whose key is not less (a variant of
\* sort_insert that C14 must tell apart: equal keys change places)
RECURSIVE sort_insert_before_equal(_, _, _)
sort_insert_before_equal(sorted, x, sortkey) ==
    IF sorted = <<>> THEN <<x>>
    ELSE IF ~StrLess(dict_get(sorted[1], sortkey).value.s,
                     dict_get(x, sortkey).value.s)
         THEN <<x>> \o sorted
         ELSE <<sorted[1]>>
                  \o sort_insert_before_equal(Tail(sorted), x, sortkey)

\* Insert row x, with sort key k, after every row whose key is not greater
RECURSIVE sort_insert(_, _, _)
sort_insert(sorted, x, sortkey) ==
    IF sorted = <<>> THEN <<x>>
    ELSE IF StrLess(dict_get(x, sortkey).value.s,
                    dict_get(sorted[1], sortkey).value.s)
         THEN <<x>> \o sorted
         ELSE <<sorted[1]>> \o sort_insert(Tail(sorted), x, sortkey)

\* The stable ascending order list.sort gives rows whose keys are all str
RECURSIVE sort_rows(_, _)
sort_rows(rows, sortkey) ==
    IF rows = <<>> THEN <<>>
    ELSE sort_insert(sort_rows(SubSeq(rows, 1, Len(rows) - 1), sortkey),
                     rows[Len(rows)], sortkey)

\* results.sort(key=lambda i: i[sortkey]): every key is computed first
\* (KeyError when a row lacks the column), then compared (TypeError when
\* two or more rows are compared and a key is None)
sort_results(results, sortkey) ==
    IF \E i \in 1..Len(results) :
           dict_get(results[i], sortkey).kind # "return"
    THEN Raised("KeyError", <<>>)
    ELSE IF Len(results) >= 2
            /\ \E i \in 1..Len(results) :
                   dict_get(results[i], sortkey).value.tag # "str"
    THEN Raised("TypeError", <<>>)
    ELSE Returned(ListVal(sort_rows(results, sortkey)))

\* snmptable with the failure checks of the other three operations, which
\* know no 'Was that a table?' (a variant C3 must tell apart)
snmptable_result_untabled(cmdstr, cmd, ipaddress, port, oid, sortkey) ==
    LET t == check_for_timeout(cmd, ipaddress, port)
    IN  IF cmd.returncode # 0
        THEN IF t.kind = "raise" THEN t
             ELSE handle_unknown_error(cmdstr, cmd)
        ELSE Returned(ListVal(<<>>))

\* The statements after run(): lines 264-290.  sortkey is NoneVal or a str.
snmptable_result(cmdstr, cmd, ipaddress, port, oid, sortkey) ==
    LET
        \* 'The snmptable command could not identify '
        NotATableHead ==
            <<84, 104, 101, 32, 115, 110, 109, 112, 116, 97, 98, 108, 101, 32, 99,
            111, 109, 109, 97, 110, 100, 32, 99, 111, 117, 108, 100, 32, 110, 111,
            116, 32, 105, 100, 101, 110, 116, 105, 102, 121, 32>>
        \* ' as a table. Please be sure the OID is correct, and that your net-snmp installation has a MIB available for that OID.'
        NotATableTail ==
            <<32, 97, 115, 32, 97, 32, 116, 97, 98, 108, 101, 46, 32, 80, 108, 101,
            97, 115, 101, 32, 98, 101, 32, 115, 117, 114, 101, 32, 116, 104, 101,
            32, 79, 73, 68, 32, 105, 115, 32, 99, 111, 114, 114, 101, 99, 116, 44,
            32, 97, 110, 100, 32, 116, 104, 97, 116, 32, 121, 111, 117, 114, 32,
            110, 101, 116, 45, 115, 110, 109, 112, 32, 105, 110, 115, 116, 97, 108,
            108, 97, 116, 105, 111, 110, 32, 104, 97, 115, 32, 97, 32, 77, 73, 66,
            32, 97, 118, 97, 105, 108, 97, 98, 108, 101, 32, 102, 111, 114, 32, 116,
            104, 97, 116, 32, 79, 73, 68, 46>>
    IN  IF cmd.returncode # 0
        THEN LET t == check_for_timeout(cmd, ipaddress, port)
             IN  IF t.kind = "raise" THEN t
                 ELSE IF Contains(WasThatATable, cmd.stderr)
                      THEN Raised("SNMPError",
                                  NotATableHead \o oid \o NotATableTail)
                      ELSE handle_unknown_error(cmdstr, cmd)
        ELSE LET cmdoutput == decode_all(splitlines(cmd.stdout))
                 results == DictReader(SubSeq(cmdoutput.lines, 3,
                                              Len(cmdoutput.lines)))
             IN  IF ~cmdoutput.ok THEN Raised("UnicodeDecodeError", <<>>)
                 ELSE IF ~results.ok
                      THEN Raised("Error",
                                  \* 'field larger than field limit (131072)'
                                  <<102, 105, 101, 108, 100, 32, 108, 97, 114,
                                  103, 101, 114, 32, 116, 104, 97, 110, 32, 102,
                                  105, 101, 108, 100, 32, 108, 105, 109, 105,
                                  116, 32, 40, 49, 51, 49, 48, 55, 50, 41>>)
                 ELSE IF sortkey.tag = "str" /\ sortkey.s # <<>>
                      THEN sort_results(results.rows, sortkey)
                      ELSE Returned(ListVal(results.rows))

(***************************************************************************)
(* The inputs of the model: the arguments of a call, what name resolution  *)
(* answers, and what the external command leaves behind.                   *)
(***************************************************************************)
\* 'No Such Object', the second marker the documentation names
NoSuchObject ==
    <<78, 111, 32, 83, 117, 99, 104, 32, 79, 98, 106, 101, 99, 116>>

\* '10.0.0.1'
Addr10_0_0_1 ==
    <<49, 48, 46, 48, 46, 48, 46, 49>>

\* '10.0.0.2'
Addr10_0_0_2 ==
    <<49, 48, 46, 48, 46, 48, 46, 50>>

\* 'sw1', a host name
HostSw1 ==
    <<115, 119, 49>>

\* 'public'
CommunityPublic ==
    <<112, 117, 98, 108, 105, 99>>

\* '.1.3.6.1.2.1.1.1.0'
OidSysDescr ==
    <<46, 49, 46, 51, 46, 54, 46, 49, 46, 50, 46, 49, 46, 49, 46, 49, 46,
    48>>

\* 'IF-MIB::ifEntry'
OidIfEntry ==
    <<73, 70, 45, 77, 73, 66, 58, 58, 105, 102, 69, 110, 116, 114, 121>>

\* 'ifIndex'
KeyIfIndex ==
    <<105, 102, 73, 110, 100, 101, 120>>

\* 'desc'
KeyDesc ==
    <<100, 101, 115, 99>>

\* b'Error\n'
ErrText ==
    <<69, 114, 114, 111, 114, 10>>

\* b'Caf\xc3\xa9', the UTF-8 bytes of 'Caf\u00e9'
OutCafe ==
    <<67, 97, 102, 195, 169>>

\* 'Caf\u00e9'
TextCafe ==
    <<67, 97, 102, 233>>

\* b'.1.2 = Vlan1'
LinePlain ==
    <<46, 49, 46, 50, 32, 61, 32, 86, 108, 97, 110, 49>>

\* b'.1.3 = No Such Instance'
LineNoInstance ==
    <<46, 49, 46, 51, 32, 61, 32, 78, 111, 32, 83, 117, 99, 104, 32, 73,
    110, 115, 116, 97, 110, 99, 101>>

\* b'.1.5 = a = b'
LineSepInValue ==
    <<46, 49, 46, 53, 32, 61, 32, 97, 32, 61, 32, 98>>

\* b'more', a line with no ' = '
LineNoSep ==
    <<109, 111, 114, 101>>

\* b'SNMP table: ifTable'
TableTitle ==
    <<83, 78, 77, 80, 32, 116, 97, 98, 108, 101, 58, 32, 105, 102, 84, 97,
    98, 108, 101>>

\* b'ifIndex\x1eifDescr'
TableHeader ==
    <<105, 102, 73, 110, 100, 101, 120, 30, 105, 102, 68, 101, 115, 99,
    114>>

\* b'2\x1eGi0/2'
Row2 ==
    <<50, 30, 71, 105, 48, 47, 50>>

\* b'1\x1eVlan1'
Row1 ==
    <<49, 30, 86, 108, 97, 110, 49>>

\* All concatenations of at most n elements of the set frags
RECURSIVE Concats(_, _)
Concats(frags, n) ==
    IF n = 0 THEN {<<>>}
    ELSE Concats(frags, n - 1)
             \cup {f \o t : f \in frags, t \in Concats(frags, n - 1)}

CommunityInputs == {CommunityPublic}
\* The devices called: a literal address on the default port, a host name
\* on another port
TargetInputs ==
    {[ipaddress |-> Addr10_0_0_1, port |-> IntVal(161)],
     [ipaddress |-> HostSw1, port |-> IntVal(10000)]}
TimeoutInputs == {3}
OidInputs == {StrVal(OidIfEntry)}
\* strtoul(part, &end, 0) as inet_aton uses it on one part of the host:
\* hex after 0x, octal after 0, decimal otherwise.  ok = FALSE when the part
\* is not wholly such a number or is above 0xffffffff; b is the value as
\* four bytes, the highest first.
strtoul(part) ==
    LET n == Len(part)
        hex == /\ n >= 3 /\ part[1] = 48 /\ part[2] \in {88, 120}
               /\ \A i \in 3..n :
                      part[i] \in (48..57) \cup (65..70) \cup (97..102)
        oct == /\ n >= 1 /\ part[1] = 48
               /\ \A i \in 1..n : part[i] >= 48 /\ part[i] <= 55
        dec == /\ n >= 1 /\ part[1] >= 49 /\ part[1] <= 57
               /\ \A i \in 1..n : part[i] >= 48 /\ part[i] <= 57
        \* value * base + digit, by bytes from the lowest
        add(over, b, base, d) ==
            LET t4 == b[4] * base + d
                t3 == b[3] * base + t4 \div 256
                t2 == b[2] * base + t3 \div 256
                t1 == b[1] * base + t2 \div 256
            IN  [over |-> over \/ t1 >= 256,
                 b |-> <<t1 % 256, t2 % 256, t3 % 256, t4 % 256>>]
        next(v, base, d) == add(v.over, v.b, base, d)
        RECURSIVE value(_, _)
        value(digits, base) ==
            IF digits = <<>> THEN [over |-> FALSE, b |-> <<0, 0, 0, 0>>]
            ELSE next(value(SubSeq(digits, 1, Len(digits) - 1), base), base,
                      HexValue(<<digits[Len(digits)]>>))
        number(v) == IF v.over THEN [ok |-> FALSE, b |-> <<>>]
                     ELSE [ok |-> TRUE, b |-> v.b]
        \* leading zeros add nothing, and no number of 32 bits has more
        \* than 11 digits after them
        significant(digits, nonzero, base) ==
            IF nonzero = {} THEN number(value(<<>>, base))
            ELSE IF Len(digits) - Min(nonzero) >= 11
            THEN [ok |-> FALSE, b |-> <<>>]
            ELSE number(value(SubSeq(digits, Min(nonzero), Len(digits)),
                              base))
        of(digits, base) ==
            significant(digits,
                        {i \in 1..Len(digits) : digits[i] # 48}, base)
    IN  IF hex THEN of(SubSeq(part, 3, n), 16)
        ELSE IF oct THEN of(part, 8)
        ELSE IF dec THEN of(part, 10)
        ELSE [ok |-> FALSE, b |-> <<>>]

\* inet_aton as getaddrinfo uses it on a numeric host: one to four parts,
\* every part but the last is one byte, the last part fills the bytes that
\* are left ('10.0.0.01' is 10.0.0.1, '1.2.3' is 1.2.0.3).
inet_aton(host) ==
    LET address(v, n) ==
            IF /\ n <= 4
               /\ \A i \in 1..n : v[i].ok
               /\ \A i \in 1..(n - 1) : \A j \in 1..3 : v[i].b[j] = 0
               /\ \A j \in 1..(n - 1) : v[n].b[j] = 0
            THEN [ok |-> TRUE,
                  octets |-> [i \in 1..4 |->
                                 IF i < n THEN v[i].b[4] ELSE v[n].b[i]]]
            ELSE [ok |-> FALSE, octets |-> <<>>]
        numbers(parts) ==
            address([i \in 1..Len(parts) |-> strtoul(parts[i])], Len(parts))
    IN  numbers(split(host, <<46>>))

\* inet_ntop(AF_INET6) of the C library: as compress_hextets, but an
\* address with six leading zero groups, or five and then ffff, ends in a
\* dotted quad
inet_ntop(w) ==
    LET mixed(head) ==
            head \o dotted(<<w[7] \div 256, w[7] % 256,
                             w[8] \div 256, w[8] % 256>>)
    IN  IF \E i \in 1..5 : w[i] # 0 THEN compress_hextets(w)
        ELSE IF w[6] = 0 /\ w[7] # 0 THEN mixed(<<58, 58>>)
        ELSE IF w[6] = 65535 THEN mixed(<<58, 58, 102, 102, 102, 102, 58>>)
        ELSE compress_hextets(w)

\* nameprep of the idna codec on one label (encodings/idna.py): every
\* character is mapped by the stringprep tables B.1 (to nothing) and B.2
\* (case folding), then the label is normalised (NFKC, Unicode 3.2).  The
\* tables below are the characters outside ASCII that become ASCII text:
\* nothing holds the ranges mapped to nothing, shifted the ranges
\* <<first, last, d>> whose characters c become c - d, texts the other
\* characters with the text they become.  Any other character outside
\* ASCII stays.
nameprep(label) ==
    LET nothing ==
           {
            <<173, 173>>, <<847, 847>>, <<6150, 6150>>, <<6155, 6157>>,
            <<8203, 8205>>, <<8288, 8288>>, <<65024, 65039>>, <<65279, 65279>>
           }
        shifted ==
           {
            <<160, 160, 128>>, <<170, 170, 73>>, <<178, 179, 128>>,
            <<185, 185, 136>>, <<186, 186, 75>>, <<383, 383, 268>>,
            <<688, 688, 584>>, <<690, 690, 584>>, <<691, 691, 577>>,
            <<695, 695, 576>>, <<696, 696, 575>>, <<737, 737, 629>>,
            <<738, 738, 623>>, <<739, 739, 619>>, <<894, 894, 835>>,
            <<8175, 8175, 8079>>, <<8192, 8192, 8160>>, <<8193, 8193, 8161>>,
            <<8194, 8194, 8162>>, <<8195, 8195, 8163>>, <<8196, 8196, 8164>>,
            <<8197, 8197, 8165>>, <<8198, 8198, 8166>>, <<8199, 8199, 8167>>,
            <<8200, 8200, 8168>>, <<8201, 8201, 8169>>, <<8202, 8202, 8170>>,
            <<8228, 8228, 8182>>, <<8239, 8239, 8207>>, <<8287, 8287, 8255>>,
            <<8304, 8304, 8256>>, <<8305, 8305, 8200>>, <<8308, 8313, 8256>>,
            <<8314, 8314, 8271>>, <<8316, 8316, 8255>>, <<8317, 8318, 8277>>,
            <<8319, 8319, 8209>>, <<8320, 8329, 8272>>, <<8330, 8330, 8287>>,
            <<8332, 8332, 8271>>, <<8333, 8334, 8293>>, <<8450, 8450, 8351>>,
            <<8458, 8459, 8355>>, <<8460, 8460, 8356>>, <<8461, 8461, 8357>>,
            <<8462, 8462, 8358>>, <<8464, 8464, 8359>>, <<8465, 8465, 8360>>,
            <<8466, 8466, 8358>>, <<8467, 8467, 8359>>, <<8469, 8469, 8359>>,
            <<8473, 8475, 8361>>, <<8476, 8476, 8362>>, <<8477, 8477, 8363>>,
            <<8484, 8484, 8362>>, <<8488, 8488, 8366>>, <<8490, 8490, 8383>>,
            <<8492, 8493, 8394>>, <<8495, 8495, 8394>>, <<8496, 8497, 8395>>,
            <<8499, 8499, 8390>>, <<8500, 8500, 8389>>, <<8505, 8505, 8400>>,
            <<8517, 8517, 8417>>, <<8518, 8519, 8418>>, <<8520, 8521, 8415>>,
            <<8544, 8544, 8439>>, <<8548, 8548, 8430>>, <<8553, 8553, 8433>>,
            <<8556, 8556, 8448>>, <<8557, 8558, 8458>>, <<8559, 8559, 8450>>,
            <<8560, 8560, 8455>>, <<8564, 8564, 8446>>, <<8569, 8569, 8449>>,
            <<8572, 8572, 8464>>, <<8573, 8574, 8474>>, <<8575, 8575, 8466>>,
            <<9312, 9320, 9263>>, <<9398, 9423, 9301>>, <<9424, 9449, 9327>>,
            <<9450, 9450, 9402>>, <<12288, 12288, 12256>>,
            <<64297, 64297, 64254>>, <<65075, 65075, 64980>>,
            <<65076, 65076, 64981>>, <<65077, 65078, 65037>>,
            <<65079, 65079, 64956>>, <<65080, 65080, 64955>>,
            <<65101, 65101, 65006>>, <<65102, 65102, 65007>>,
            <<65103, 65103, 65008>>, <<65104, 65104, 65060>>,
            <<65106, 65106, 65060>>, <<65108, 65108, 65049>>,
            <<65109, 65109, 65051>>, <<65110, 65110, 65047>>,
            <<65111, 65111, 65078>>, <<65113, 65114, 65073>>,
            <<65115, 65115, 64992>>, <<65116, 65116, 64991>>,
            <<65119, 65119, 65084>>, <<65120, 65120, 65082>>,
            <<65121, 65122, 65079>>, <<65123, 65123, 65078>>,
            <<65124, 65124, 65064>>, <<65125, 65125, 65063>>,
            <<65126, 65126, 65065>>, <<65128, 65128, 65036>>,
            <<65129, 65130, 65093>>, <<65131, 65131, 65067>>,
            <<65281, 65312, 65248>>, <<65313, 65338, 65216>>,
            <<65339, 65374, 65248>>, <<119808, 119833, 119711>>,
            <<119834, 119859, 119737>>, <<119860, 119885, 119763>>,
            <<119886, 119892, 119789>>, <<119894, 119911, 119789>>,
            <<119912, 119937, 119815>>, <<119938, 119963, 119841>>,
            <<119964, 119964, 119867>>, <<119966, 119967, 119867>>,
            <<119970, 119970, 119867>>, <<119973, 119974, 119867>>,
            <<119977, 119980, 119867>>, <<119982, 119989, 119867>>,
            <<119990, 119993, 119893>>, <<119995, 119995, 119893>>,
            <<119997, 120000, 119893>>, <<120002, 120003, 119893>>,
            <<120005, 120015, 119893>>, <<120016, 120041, 119919>>,
            <<120042, 120067, 119945>>, <<120068, 120069, 119971>>,
            <<120071, 120074, 119971>>, <<120077, 120084, 119971>>,
            <<120086, 120092, 119971>>, <<120094, 120119, 119997>>,
            <<120120, 120121, 120023>>, <<120123, 120126, 120023>>,
            <<120128, 120132, 120023>>, <<120134, 120134, 120023>>,
            <<120138, 120144, 120023>>, <<120146, 120171, 120049>>,
            <<120172, 120197, 120075>>, <<120198, 120223, 120101>>,
            <<120224, 120249, 120127>>, <<120250, 120275, 120153>>,
            <<120276, 120301, 120179>>, <<120302, 120327, 120205>>,
            <<120328, 120353, 120231>>, <<120354, 120379, 120257>>,
            <<120380, 120405, 120283>>, <<120406, 120431, 120309>>,
            <<120432, 120457, 120335>>, <<120458, 120483, 120361>>,
            <<120782, 120791, 120734>>, <<120792, 120801, 120744>>,
            <<120802, 120811, 120754>>, <<120812, 120821, 120764>>,
            <<120822, 120831, 120774>>
           }
        texts ==
           {
            <<223, <<115, 115>>>>, <<306, <<105, 106>>>>,
            <<307, <<105, 106>>>>, <<455, <<108, 106>>>>,
            <<456, <<108, 106>>>>, <<457, <<108, 106>>>>,
            <<458, <<110, 106>>>>, <<459, <<110, 106>>>>,
            <<460, <<110, 106>>>>, <<497, <<100, 122>>>>,
            <<498, <<100, 122>>>>, <<499, <<100, 122>>>>,
            <<7838, <<115, 115>>>>, <<8229, <<46, 46>>>>,
            <<8230, <<46, 46, 46>>>>, <<8252, <<33, 33>>>>,
            <<8263, <<63, 63>>>>, <<8264, <<63, 33>>>>, <<8265, <<33, 63>>>>,
            <<8360, <<114, 115>>>>, <<8448, <<97, 47, 99>>>>,
            <<8449, <<97, 47, 115>>>>, <<8453, <<99, 47, 111>>>>,
            <<8454, <<99, 47, 117>>>>, <<8470, <<110, 111>>>>,
            <<8480, <<115, 109>>>>, <<8481, <<116, 101, 108>>>>,
            <<8482, <<116, 109>>>>, <<8545, <<105, 105>>>>,
            <<8546, <<105, 105, 105>>>>, <<8547, <<105, 118>>>>,
            <<8549, <<118, 105>>>>, <<8550, <<118, 105, 105>>>>,
            <<8551, <<118, 105, 105, 105>>>>, <<8552, <<105, 120>>>>,
            <<8554, <<120, 105>>>>, <<8555, <<120, 105, 105>>>>,
            <<8561, <<105, 105>>>>, <<8562, <<105, 105, 105>>>>,
            <<8563, <<105, 118>>>>, <<8565, <<118, 105>>>>,
            <<8566, <<118, 105, 105>>>>, <<8567, <<118, 105, 105, 105>>>>,
            <<8568, <<105, 120>>>>, <<8570, <<120, 105>>>>,
            <<8571, <<120, 105, 105>>>>, <<9321, <<49, 48>>>>,
            <<9322, <<49, 49>>>>, <<9323, <<49, 50>>>>, <<9324, <<49, 51>>>>,
            <<9325, <<49, 52>>>>, <<9326, <<49, 53>>>>, <<9327, <<49, 54>>>>,
            <<9328, <<49, 55>>>>, <<9329, <<49, 56>>>>, <<9330, <<49, 57>>>>,
            <<9331, <<50, 48>>>>, <<9332, <<40, 49, 41>>>>,
            <<9333, <<40, 50, 41>>>>, <<9334, <<40, 51, 41>>>>,
            <<9335, <<40, 52, 41>>>>, <<9336, <<40, 53, 41>>>>,
            <<9337, <<40, 54, 41>>>>, <<9338, <<40, 55, 41>>>>,
            <<9339, <<40, 56, 41>>>>, <<9340, <<40, 57, 41>>>>,
            <<9341, <<40, 49, 48, 41>>>>, <<9342, <<40, 49, 49, 41>>>>,
            <<9343, <<40, 49, 50, 41>>>>, <<9344, <<40, 49, 51, 41>>>>,
            <<9345, <<40, 49, 52, 41>>>>, <<9346, <<40, 49, 53, 41>>>>,
            <<9347, <<40, 49, 54, 41>>>>, <<9348, <<40, 49, 55, 41>>>>,
            <<9349, <<40, 49, 56, 41>>>>, <<9350, <<40, 49, 57, 41>>>>,
            <<9351, <<40, 50, 48, 41>>>>, <<9352, <<49, 46>>>>,
            <<9353, <<50, 46>>>>, <<9354, <<51, 46>>>>, <<9355, <<52, 46>>>>,
            <<9356, <<53, 46>>>>, <<9357, <<54, 46>>>>, <<9358, <<55, 46>>>>,
            <<9359, <<56, 46>>>>, <<9360, <<57, 46>>>>,
            <<9361, <<49, 48, 46>>>>, <<9362, <<49, 49, 46>>>>,
            <<9363, <<49, 50, 46>>>>, <<9364, <<49, 51, 46>>>>,
            <<9365, <<49, 52, 46>>>>, <<9366, <<49, 53, 46>>>>,
            <<9367, <<49, 54, 46>>>>, <<9368, <<49, 55, 46>>>>,
            <<9369, <<49, 56, 46>>>>, <<9370, <<49, 57, 46>>>>,
            <<9371, <<50, 48, 46>>>>, <<9372, <<40, 97, 41>>>>,
            <<9373, <<40, 98, 41>>>>, <<9374, <<40, 99, 41>>>>,
            <<9375, <<40, 100, 41>>>>, <<9376, <<40, 101, 41>>>>,
            <<9377, <<40, 102, 41>>>>, <<9378, <<40, 103, 41>>>>,
            <<9379, <<40, 104, 41>>>>, <<9380, <<40, 105, 41>>>>,
            <<9381, <<40, 106, 41>>>>, <<9382, <<40, 107, 41>>>>,
            <<9383, <<40, 108, 41>>>>, <<9384, <<40, 109, 41>>>>,
            <<9385, <<40, 110, 41>>>>, <<9386, <<40, 111, 41>>>>,
            <<9387, <<40, 112, 41>>>>, <<9388, <<40, 113, 41>>>>,
            <<9389, <<40, 114, 41>>>>, <<9390, <<40, 115, 41>>>>,
            <<9391, <<40, 116, 41>>>>, <<9392, <<40, 117, 41>>>>,
            <<9393, <<40, 118, 41>>>>, <<9394, <<40, 119, 41>>>>,
            <<9395, <<40, 120, 41>>>>, <<9396, <<40, 121, 41>>>>,
            <<9397, <<40, 122, 41>>>>, <<10868, <<58, 58, 61>>>>,
            <<10869, <<61, 61>>>>, <<10870, <<61, 61, 61>>>>,
            <<12881, <<50, 49>>>>, <<12882, <<50, 50>>>>,
            <<12883, <<50, 51>>>>, <<12884, <<50, 52>>>>,
            <<12885, <<50, 53>>>>, <<12886, <<50, 54>>>>,
            <<12887, <<50, 55>>>>, <<12888, <<50, 56>>>>,
            <<12889, <<50, 57>>>>, <<12890, <<51, 48>>>>,
            <<12891, <<51, 49>>>>, <<12892, <<51, 50>>>>,
            <<12893, <<51, 51>>>>, <<12894, <<51, 52>>>>,
            <<12895, <<51, 53>>>>, <<12977, <<51, 54>>>>,
            <<12978, <<51, 55>>>>, <<12979, <<51, 56>>>>,
            <<12980, <<51, 57>>>>, <<12981, <<52, 48>>>>,
            <<12982, <<52, 49>>>>, <<12983, <<52, 50>>>>,
            <<12984, <<52, 51>>>>, <<12985, <<52, 52>>>>,
            <<12986, <<52, 53>>>>, <<12987, <<52, 54>>>>,
            <<12988, <<52, 55>>>>, <<12989, <<52, 56>>>>,
            <<12990, <<52, 57>>>>, <<12991, <<53, 48>>>>,
            <<13169, <<104, 112, 97>>>>, <<13170, <<100, 97>>>>,
            <<13171, <<97, 117>>>>, <<13172, <<98, 97, 114>>>>,
            <<13173, <<111, 118>>>>, <<13174, <<112, 99>>>>,
            <<13184, <<112, 97>>>>, <<13185, <<110, 97>>>>,
            <<13187, <<109, 97>>>>, <<13188, <<107, 97>>>>,
            <<13189, <<107, 98>>>>, <<13190, <<109, 98>>>>,
            <<13191, <<103, 98>>>>, <<13192, <<99, 97, 108>>>>,
            <<13193, <<107, 99, 97, 108>>>>, <<13194, <<112, 102>>>>,
            <<13195, <<110, 102>>>>, <<13198, <<109, 103>>>>,
            <<13199, <<107, 103>>>>, <<13200, <<104, 122>>>>,
            <<13201, <<107, 104, 122>>>>, <<13202, <<109, 104, 122>>>>,
            <<13203, <<103, 104, 122>>>>, <<13204, <<116, 104, 122>>>>,
            <<13206, <<109, 108>>>>, <<13207, <<100, 108>>>>,
            <<13208, <<107, 108>>>>, <<13209, <<102, 109>>>>,
            <<13210, <<110, 109>>>>, <<13212, <<109, 109>>>>,
            <<13213, <<99, 109>>>>, <<13214, <<107, 109>>>>,
            <<13215, <<109, 109, 50>>>>, <<13216, <<99, 109, 50>>>>,
            <<13217, <<109, 50>>>>, <<13218, <<107, 109, 50>>>>,
            <<13219, <<109, 109, 51>>>>, <<13220, <<99, 109, 51>>>>,
            <<13221, <<109, 51>>>>, <<13222, <<107, 109, 51>>>>,
            <<13225, <<112, 97>>>>, <<13226, <<107, 112, 97>>>>,
            <<13227, <<109, 112, 97>>>>, <<13228, <<103, 112, 97>>>>,
            <<13229, <<114, 97, 100>>>>, <<13232, <<112, 115>>>>,
            <<13233, <<110, 115>>>>, <<13235, <<109, 115>>>>,
            <<13236, <<112, 118>>>>, <<13237, <<110, 118>>>>,
            <<13239, <<109, 118>>>>, <<13240, <<107, 118>>>>,
            <<13241, <<109, 118>>>>, <<13242, <<112, 119>>>>,
            <<13243, <<110, 119>>>>, <<13245, <<109, 119>>>>,
            <<13246, <<107, 119>>>>, <<13247, <<109, 119>>>>,
            <<13250, <<97, 46, 109, 46>>>>, <<13251, <<98, 113>>>>,
            <<13252, <<99, 99>>>>, <<13253, <<99, 100>>>>,
            <<13255, <<99, 111, 46>>>>, <<13256, <<100, 98>>>>,
            <<13257, <<103, 121>>>>, <<13258, <<104, 97>>>>,
            <<13259, <<104, 112>>>>, <<13260, <<105, 110>>>>,
            <<13261, <<107, 107>>>>, <<13262, <<107, 109>>>>,
            <<13263, <<107, 116>>>>, <<13264, <<108, 109>>>>,
            <<13265, <<108, 110>>>>, <<13266, <<108, 111, 103>>>>,
            <<13267, <<108, 120>>>>, <<13268, <<109, 98>>>>,
            <<13269, <<109, 105, 108>>>>, <<13270, <<109, 111, 108>>>>,
            <<13271, <<112, 104>>>>, <<13272, <<112, 46, 109, 46>>>>,
            <<13273, <<112, 112, 109>>>>, <<13274, <<112, 114>>>>,
            <<13275, <<115, 114>>>>, <<13276, <<115, 118>>>>,
            <<13277, <<119, 98>>>>, <<64256, <<102, 102>>>>,
            <<64257, <<102, 105>>>>, <<64258, <<102, 108>>>>,
            <<64259, <<102, 102, 105>>>>, <<64260, <<102, 102, 108>>>>,
            <<64261, <<115, 116>>>>, <<64262, <<115, 116>>>>,
            <<65072, <<46, 46>>>>
           }
        mapped(c) ==
            IF c < 128 THEN <<IF c >= 65 /\ c <= 90 THEN c + 32 ELSE c>>
            ELSE IF \E r \in nothing : c >= r[1] /\ c <= r[2] THEN <<>>
            ELSE IF \E r \in shifted : c >= r[1] /\ c <= r[2]
            THEN <<c - (CHOOSE r \in shifted : c >= r[1] /\ c <= r[2])[3]>>
            ELSE IF \E p \in texts : p[1] = c
            THEN (CHOOSE p \in texts : p[1] = c)[2]
            ELSE <<c>>
        text(pieces) ==
            LET RECURSIVE between(_, _)
                between(a, b) ==
                    IF a > b THEN <<>>
                    ELSE IF a = b THEN pieces[a]
                    ELSE between(a, (a + b) \div 2)
                             \o between((a + b) \div 2 + 1, b)
            IN  between(1, Len(pieces))
    IN  text([i \in 1..Len(label) |-> mapped(label[i])])

\* ToASCII of the idna codec on one label: ok = FALSE stands for
\* UnicodeError (the label is empty or has 64 characters and more).  A
\* label that keeps a character outside ASCII after nameprep is refused
\* (a prohibited character, the bidi rules, the length) or becomes an ACE
\* label, 'xn--' and its punycode: ace tells that, and label is 'xn--'.
ToASCII(label) ==
    LET ascii(t) == \A i \in 1..Len(t) : t[i] < 128
        sized(t) == [ok |-> Len(t) > 0 /\ Len(t) < 64, label |-> t,
                     ace |-> FALSE]
        prepared(t) == IF ascii(t) THEN sized(t)
                       ELSE [ok |-> TRUE, label |-> <<120, 110, 45, 45>>,
                             ace |-> TRUE]
    IN  IF ascii(label) THEN sized(label) ELSE prepared(nameprep(label))

\* host.encode('idna') as getaddrinfo does it for a str: ok = FALSE stands
\* for UnicodeError, host is the encoded name, ace tells that a label had to
\* be ACE encoded.  A name of ASCII characters is checked label by label
\* (only the last may be empty, none has 64 characters) and passed on as
\* it is; otherwise the labels between the dots U+002E, U+3002, U+FF0E and
\* U+FF61 go through ToASCII one by one.
idna(name) ==
    LET dot(c) == IF c \in {12290, 65294, 65377} THEN 46 ELSE c
        fast(labels) ==
            [ok |-> /\ \A i \in 1..(Len(labels) - 1) :
                           Len(labels[i]) > 0 /\ Len(labels[i]) < 64
                    /\ Len(labels[Len(labels)]) < 64,
             host |-> name, ace |-> FALSE]
        joined(encoded, trailing_dot) ==
            [ok |-> \A i \in 1..Len(encoded) : encoded[i].ok,
             host |-> join(<<46>>, [i \in 1..Len(encoded) |->
                                       encoded[i].label]) \o trailing_dot,
             ace |-> \E i \in 1..Len(encoded) : encoded[i].ace]
        each(labels, trailing_dot) ==
            joined([i \in 1..Len(labels) |-> ToASCII(labels[i])],
                   trailing_dot)
        slow(labels) ==
            IF labels[Len(labels)] = <<>>
            THEN each(SubSeq(labels, 1, Len(labels) - 1), <<46>>)
            ELSE each(labels, <<>>)
    IN  IF name = <<>> THEN [ok |-> TRUE, host |-> <<>>, ace |-> FALSE]
        ELSE IF \A i \in 1..Len(name) : name[i] < 128
        THEN fast(split(name, <<46>>))
        ELSE slow(split([i \in 1..Len(name) |-> dot(name[i])], <<46>>))

\* What getaddrinfo(name, None)[0][4][0] can be: ok = FALSE stands for
\* gaierror and for the UnicodeError of host.encode('idna') (a ValueError).
\* The C library is handed the encoded name as a C string, which ends at
\* its first null character.  A numeric host is answered without any
\* lookup, in the text inet_ntop gives it; a scope id is checked against
\* the interfaces of the machine and left out of the answer.  Any other
\* name fails to resolve, or resolves to an IPv4 address ('10.0.0.2') or to
\* an IPv6 address ('::1').
getaddrinfo(name) ==
    LET fails == [ok |-> FALSE, addr |-> <<>>]
        answers(a4, a6) ==
            IF a4.ok THEN {[ok |-> TRUE, addr |-> dotted(a4.octets)]}
            ELSE IF a6.ok
            THEN {[ok |-> TRUE, addr |-> inet_ntop(a6.hextets)]}
                     \cup (IF a6.scope = <<>> THEN {} ELSE {fails})
            ELSE {fails,
                  [ok |-> TRUE, addr |-> Addr10_0_0_2],
                  [ok |-> TRUE, addr |-> <<58, 58, 49>>]}
        lookup(host) ==
            IF host = <<>> THEN {fails}
            ELSE answers(inet_aton(host), IPv6Address(host))
        c_string(b, nulls) ==
            IF nulls = {} THEN b ELSE SubSeq(b, 1, Min(nulls) - 1)
        resolve(encoded) ==
            IF ~encoded.ok THEN {fails}
            ELSE lookup(c_string(encoded.host,
                                 {i \in 1..Len(encoded.host) :
                                      encoded.host[i] = 0}))
                     \cup (IF encoded.ace THEN {fails} ELSE {})
    IN  resolve(idna(name))

StderrInputs ==
    LET StderrFragments == {NoResponseFrom, UnknownHost, WasThatATable, ErrText}
    IN  Concats(StderrFragments, MaxErrFrags)
\* stderr of a command that exited with status 0
StderrOnSuccess == {<<>>, NoResponseFrom \o WasThatATable}

ScalarOutputs ==
    LET ScalarFragments == {OutCafe, <<10>>, NoSuchInstance, NoSuchObject, <<255>>}
    IN  Concats(ScalarFragments, MaxOutFrags)

\* Outputs of snmpgetbulk / snmpwalk: lines, each ended by a line feed
LineInputs ==
    LET
        \* b'.1.4 = No Such Object'
        LineNoObject ==
            <<46, 49, 46, 52, 32, 61, 32, 78, 111, 32, 83, 117, 99, 104, 32, 79, 98,
            106, 101, 99, 116>>
        \* b'.1.6 = \xff'
        LineBadUtf8 ==
            <<46, 49, 46, 54, 32, 61, 32, 255>>
    IN  {LinePlain, LineNoInstance, LineNoObject, LineSepInValue,
                   LineNoSep, LineBadUtf8, <<>>}
LineOutputs == Concats({l \o <<10>> : l \in LineInputs}, MaxLines)

RowInputs ==
    LET
        \* b'1\x1ea,b\tc'
        Row1Comma ==
            <<49, 30, 97, 44, 98, 9, 99>>
        \* b'3'
        RowShort ==
            <<51>>
        \* b'4\x1ex\x1ey'
        RowLong ==
            <<52, 30, 120, 30, 121>>
        \* b'5\x1e"Gi"'
        RowQuoted ==
            <<53, 30, 34, 71, 105, 34>>
        \* b'6\x1e"x'
        RowOpenQuote ==
            <<54, 30, 34, 120>>
    IN  {Row2, Row1, Row1Comma, RowShort, RowLong, RowQuoted, RowOpenQuote, <<>>}
\* Outputs of snmptable: nothing, or the title line, a blank line, a header
\* and data lines
TableOutputs ==
    LET
        \* b'ifDescr'
        TableHeaderNoIndex ==
            <<105, 102, 68, 101, 115, 99, 114>>
    IN  {<<>>, TableTitle \o <<10>>}
            \cup {TableTitle \o <<10, 10>> \o h \o <<10>> \o rows :
                     h \in {TableHeader, TableHeaderNoIndex},
                     rows \in Concats({r \o <<10>> : r \in RowInputs}, MaxLines)}

StdoutInputs(operation) ==
    IF operation = "snmpget" THEN ScalarOutputs
    ELSE IF operation = "snmptable" THEN TableOutputs
    ELSE LineOutputs
\* stdout of a command that exited with a nonzero status
StdoutOnFailure == {<<>>, LinePlain \o <<10>>}

ReturnCodes == {1, 2}

\* The module-level dict oids of src/GetSwitchPorts.py as the module
\* defines it, lines 19-40
OidsTable ==
    DictVal(<<
          \* 'sysName': '.1.3.6.1.2.1.1.5.0'
          TupleVal(<<StrVal(<<115, 121, 115, 78, 97, 109, 101>>),
              StrVal(<<46, 49, 46, 51, 46, 54, 46, 49, 46, 50, 46, 49, 46, 49, 46,
                  53, 46, 48>>)>>),
          \* 'sysDescr': '.1.3.6.1.2.1.1.1.0'
          TupleVal(<<StrVal(<<115, 121, 115, 68, 101, 115, 99, 114>>),
              StrVal(<<46, 49, 46, 51, 46, 54, 46, 49, 46, 50, 46, 49, 46, 49, 46,
                  49, 46, 48>>)>>),
          \* 'ifNumber': '.1.3.6.1.2.1.2.1.0'
          TupleVal(<<StrVal(<<105, 102, 78, 117, 109, 98, 101, 114>>),
              StrVal(<<46, 49, 46, 51, 46, 54, 46, 49, 46, 50, 46, 49, 46, 50, 46,
                  49, 46, 48>>)>>),
          \* 'ifTable': '.1.3.6.1.2.1.2.2.1'
          TupleVal(<<StrVal(<<105, 102, 84, 97, 98, 108, 101>>),
              StrVal(<<46, 49, 46, 51, 46, 54, 46, 49, 46, 50, 46, 49, 46, 50, 46,
                  50, 46, 49>>)>>),
          \* 'ifIndex': '.1.3.6.1.2.1.2.2.1.1'
          TupleVal(<<StrVal(<<105, 102, 73, 110, 100, 101, 120>>),
              StrVal(<<46, 49, 46, 51, 46, 54, 46, 49, 46, 50, 46, 49, 46, 50, 46,
                  50, 46, 49, 46, 49>>)>>),
          \* 'ifDescr': '.1.3.6.1.2.1.2.2.1.2'
          TupleVal(<<StrVal(<<105, 102, 68, 101, 115, 99, 114>>),
              StrVal(<<46, 49, 46, 51, 46, 54, 46, 49, 46, 50, 46, 49, 46, 50, 46,
                  50, 46, 49, 46, 50>>)>>),
          \* 'ifType': '.1.3.6.1.2.1.2.2.1.3'
          TupleVal(<<StrVal(<<105, 102, 84, 121, 112, 101>>),
              StrVal(<<46, 49, 46, 51, 46, 54, 46, 49, 46, 50, 46, 49, 46, 50, 46,
                  50, 46, 49, 46, 51>>)>>),
          \* 'ifPhysAddress': '.1.3.6.1.2.1.2.2.1.6'
          TupleVal(<<StrVal(<<105, 102, 80, 104, 121, 115, 65, 100, 100, 114, 101, 115,
                  115>>),
              StrVal(<<46, 49, 46, 51, 46, 54, 46, 49, 46, 50, 46, 49, 46, 50, 46,
                  50, 46, 49, 46, 54>>)>>),
          \* 'ifXTable': '.1.3.6.1.2.1.31.1.1.1'
          TupleVal(<<StrVal(<<105, 102, 88, 84, 97, 98, 108, 101>>),
              StrVal(<<46, 49, 46, 51, 46, 54, 46, 49, 46, 50, 46, 49, 46, 51, 49,
                  46, 49, 46, 49, 46, 49>>)>>),
          \* 'ifName': '.1.3.6.1.2.1.31.1.1.1.1'
          TupleVal(<<StrVal(<<105, 102, 78, 97, 109, 101>>),
              StrVal(<<46, 49, 46, 51, 46, 54, 46, 49, 46, 50, 46, 49, 46, 51, 49,
                  46, 49, 46, 49, 46, 49, 46, 49>>)>>),
          \* 'ifAlias': '.1.3.6.1.2.1.31.1.1.1.18'
          TupleVal(<<StrVal(<<105, 102, 65, 108, 105, 97, 115>>),
              StrVal(<<46, 49, 46, 51, 46, 54, 46, 49, 46, 50, 46, 49, 46, 51, 49,
                  46, 49, 46, 49, 46, 49, 46, 49, 56>>)>>),
          \* 'dot1qVlanStaticName': '.1.3.6.1.2.1.17.7.1.4.3.1.1'
          TupleVal(<<StrVal(<<100, 111, 116, 49, 113, 86, 108, 97, 110, 83, 116, 97, 116,
                  105, 99, 78, 97, 109, 101>>),
              StrVal(<<46, 49, 46, 51, 46, 54, 46, 49, 46, 50, 46, 49, 46, 49, 55,
                  46, 55, 46, 49, 46, 52, 46, 51, 46, 49, 46, 49>>)>>),
          \* 'cisco': {'nativeVlan': '.1.3.6.1.4.1.9.9.68.1.2.2.1.2', 'vlanTable': ''}
          TupleVal(<<StrVal(<<99, 105, 115, 99, 111>>),
              DictVal(<<TupleVal(<<StrVal(<<110, 97, 116, 105, 118, 101, 86, 108, 97, 110>>),
                  StrVal(<<46, 49, 46, 51, 46, 54, 46, 49, 46, 52, 46, 49, 46, 57,
                      46, 57, 46, 54, 56, 46, 49, 46, 50, 46, 50, 46, 49,
                      46, 50>>)>>),
                  TupleVal(<<StrVal(<<118, 108, 97, 110, 84, 97, 98, 108, 101>>),
                  StrVal(<<>>)>>)>>)>>),
          \* 'nortel': {'nativeVlan': '.1.3.6.1.4.1.2272.1.3.3.1.7', 'vlanTable': ''}
          TupleVal(<<StrVal(<<110, 111, 114, 116, 101, 108>>),
              DictVal(<<TupleVal(<<StrVal(<<110, 97, 116, 105, 118, 101, 86, 108, 97, 110>>),
                  StrVal(<<46, 49, 46, 51, 46, 54, 46, 49, 46, 52, 46, 49, 46, 50,
                      50, 55, 50, 46, 49, 46, 51, 46, 51, 46, 49, 46, 55>>)>>),
                  TupleVal(<<StrVal(<<118, 108, 97, 110, 84, 97, 98, 108, 101>>),
                  StrVal(<<>>)>>)>>)>>)>>)

(***************************************************************************)
(* State.                                                                  *)
(***************************************************************************)
VARIABLES
    pc,       \* where the current call is: "idle", "run", "ran" or "done"
    op,       \* the operation called
    args,     \* its arguments
    gai,      \* what getaddrinfo(ipaddress, None) did in this call
    ipaddr,   \* ipaddress after validate_ip_address
    cmdstr,   \* the command line formatted
    cmd,      \* the CompletedProcess run() returned
    runs,     \* how many times the current call has called run()
    outcome,  \* how the call ended
    printed,  \* what print() has written, one text per call of print()
    self,     \* the SwitchInfo instance, once there is one
    oids_table,  \* the module-level dict oids of src/GetSwitchPorts.py
              \* (the name oids is also a parameter of snmpgetbulk)
    session,  \* what the switch answers the easysnmp Session of
              \* src/GetSwitchPorts.py, and what the Session has been
              \* asked
    polled    \* how many interfaces the polling loop of __init__ has been
              \* through

vars == <<pc, op, args, gai, ipaddr, cmdstr, cmd, runs, outcome, printed,
          self, oids_table, session, polled>>

\* oids[name]
oid_of(name) == dict_get(oids_table, StrVal(name)).value.s

NoArgs == [community |-> <<>>, ipaddress |-> <<>>, oid |-> NoneVal,
           port |-> NoneVal, timeout |-> 0, sortkey |-> NoneVal]
NoCmd == [returncode |-> 0, stdout |-> <<>>, stderr |-> <<>>]
NoGai == [ok |-> FALSE, addr |-> <<>>]
NoSelf == [made |-> FALSE, swInfo |-> NoneVal, portTable |-> NoneVal,
           result |-> NoneVal]
NoSession == [sysName |-> <<>>, sysDescr |-> <<>>, interfaces |-> <<>>,
              asked |-> <<>>]

Init ==
    /\ pc = "idle"
    /\ op = ""
    /\ args = NoArgs
    /\ gai = NoGai
    /\ ipaddr = <<>>
    /\ cmdstr = <<>>
    /\ cmd = NoCmd
    /\ runs = 0
    /\ outcome = Pending
    /\ printed = <<>>
    /\ self = NoSelf
    /\ oids_table = OidsTable
    /\ session = NoSession
    /\ polled = 0

\* The statements of an operation up to run(): validate_ip_address, which
\* may end the call, then the command line
Begin(operation, a, answer, line) ==
    LET v == validate_ip_address(a.ipaddress, answer)
    IN  /\ pc = "idle"
        /\ op' = operation
        /\ args' = a
        /\ gai' = answer
        /\ runs' = 0
        /\ cmd' = NoCmd
        /\ UNCHANGED <<printed, self, oids_table, session, polled>>
        /\ IF v.kind = "raise"
           THEN /\ pc' = "done"
                /\ outcome' = v
                /\ ipaddr' = <<>>
                /\ cmdstr' = <<>>
           ELSE /\ pc' = "run"
                /\ outcome' = Pending
                /\ ipaddr' = v.value.s
                /\ cmdstr' = line

snmpget_begin ==
    \E community \in CommunityInputs, target \in TargetInputs,
       oid \in OidInputs, timeout \in TimeoutInputs :
      LET ipaddress == target.ipaddress
          port == target.port
      IN
      \E answer \in getaddrinfo(ipaddress) :
        Begin("snmpget",
              [community |-> community, ipaddress |-> ipaddress,
               oid |-> oid, port |-> port, timeout |-> timeout,
               sortkey |-> NoneVal],
              answer,
              snmpget_cmdstr(timeout, community,
                             validate_ip_address(ipaddress, answer).value.s,
                             port, oid.s))

snmpgetbulk_begin ==
    LET
        \* snmpgetbulk takes a list of OIDs; the tests also hand it a single str
        OidsInputs == {StrVal(OidSysDescr),
            ListVal(<<StrVal(OidSysDescr), StrVal(OidIfEntry)>>)}
    IN  \E community \in CommunityInputs, target \in TargetInputs,
           oids \in OidsInputs, timeout \in TimeoutInputs :
          LET ipaddress == target.ipaddress
              port == target.port
          IN
          \E answer \in getaddrinfo(ipaddress) :
            Begin("snmpgetbulk",
                  [community |-> community, ipaddress |-> ipaddress,
                   oid |-> oids, port |-> port, timeout |-> timeout,
                   sortkey |-> NoneVal],
                  answer,
                  snmpgetbulk_cmdstr(timeout, community,
                                     validate_ip_address(ipaddress,
                                         answer).value.s,
                                     port, oids))

snmpwalk_begin ==
    \E community \in CommunityInputs, target \in TargetInputs,
       oid \in OidInputs, timeout \in TimeoutInputs :
      LET ipaddress == target.ipaddress
          port == target.port
      IN
      \E answer \in getaddrinfo(ipaddress) :
        Begin("snmpwalk",
              [community |-> community, ipaddress |-> ipaddress,
               oid |-> oid, port |-> port, timeout |-> timeout,
               sortkey |-> NoneVal],
              answer,
              snmpwalk_cmdstr(timeout, community,
                              validate_ip_address(ipaddress, answer).value.s,
                              port, oid.s))

snmptable_begin ==
    LET SortkeyInputs == {NoneVal, StrVal(KeyIfIndex)}
    IN  \E community \in CommunityInputs, target \in TargetInputs,
           oid \in OidInputs, timeout \in TimeoutInputs,
           sortkey \in SortkeyInputs :
          LET ipaddress == target.ipaddress
              port == target.port
          IN
          \E answer \in getaddrinfo(ipaddress) :
            Begin("snmptable",
                  [community |-> community, ipaddress |-> ipaddress,
                   oid |-> oid, port |-> port, timeout |-> timeout,
                   sortkey |-> sortkey],
                  answer,
                  snmptable_cmdstr(timeout, community,
                                   validate_ip_address(ipaddress, answer).value.s,
                                   port, oid.s))

\* run() in a loop that may try the command again after it has completed (a
\* variant of run that C15 must tell apart)
run_retried ==
    /\ pc \in {"run", "ran"}
    /\ runs < 2
    /\ \E completed \in
           [returncode : {0}, stdout : StdoutInputs(op),
            stderr : StderrOnSuccess]
             \cup [returncode : ReturnCodes, stdout : StdoutOnFailure,
                   stderr : StderrInputs] :
           cmd' = completed
    /\ runs' = runs + 1
    /\ pc' = "ran"
    /\ UNCHANGED <<op, args, gai, ipaddr, cmdstr, outcome, printed, self>>
    /\ UNCHANGED <<oids_table, session, polled>>

\* cmd = run(cmdstr, shell=True, stdout=PIPE, stderr=PIPE): the command
\* runs to its end and leaves an exit status, stdout and stderr
run ==
    /\ pc = "run"
    /\ \E completed \in
           [returncode : {0}, stdout : StdoutInputs(op),
            stderr : StderrOnSuccess]
             \cup [returncode : ReturnCodes, stdout : StdoutOnFailure,
                   stderr : StderrInputs] :
           cmd' = completed
    /\ runs' = runs + 1
    /\ pc' = "ran"
    /\ UNCHANGED <<op, args, gai, ipaddr, cmdstr, outcome, printed, self>>
    /\ UNCHANGED <<oids_table, session, polled>>

\* The statements of an operation after run()
End(operation, result) ==
    /\ pc = "ran"
    /\ op = operation
    /\ outcome' = result
    /\ pc' = "done"
    /\ UNCHANGED <<op, args, gai, ipaddr, cmdstr, cmd, runs, printed, self>>
    /\ UNCHANGED <<oids_table, session, polled>>

snmpget_end ==
    End("snmpget", snmpget_result(cmdstr, cmd, ipaddr, args.port))

snmpgetbulk_end ==
    End("snmpgetbulk", snmpgetbulk_result(cmdstr, cmd, ipaddr, args.port))

snmpwalk_end ==
    End("snmpwalk", snmpwalk_result(cmdstr, cmd, ipaddr, args.port))

snmptable_end ==
    End("snmptable",
        snmptable_result(cmdstr, cmd, ipaddr, args.port, args.oid.s,
                         args.sortkey))

\* The caller has the result or the exception; the next call starts afresh
\* (no state is kept between calls)
Return ==
    /\ pc = "done"
    /\ pc' = "idle"
    /\ op' = ""
    /\ args' = NoArgs
    /\ gai' = NoGai
    /\ ipaddr' = <<>>
    /\ cmdstr' = <<>>
    /\ cmd' = NoCmd
    /\ runs' = 0
    /\ outcome' = Pending
    /\ printed' = <<>>
    /\ self' = NoSelf
    /\ session' = NoSession
    /\ polled' = 0
    /\ UNCHANGED oids_table

Next ==
    \/ snmpget_begin
    \/ snmpgetbulk_begin
    \/ snmpwalk_begin
    \/ snmptable_begin
    \/ run
    \/ snmpget_end
    \/ snmpgetbulk_end
    \/ snmpwalk_end
    \/ snmptable_end
    \/ Return

Spec == Init /\ [][Next]_vars

(***************************************************************************)
(* validate_ip_address called on its own, and again on its own result.     *)
(***************************************************************************)
\* The dotted quads of the octets '0', '10', '255', '256' and '01', a host
\* name, and IPv6 literals
LiteralInputs ==
    LET OctetInputs == {<<48>>, <<49, 48>>, <<50, 53, 53>>, <<50, 53, 54>>,
                        <<48, 49>>}
    IN
    {a \o <<46>> \o b \o <<46>> \o c \o <<46>> \o d :
        a \in OctetInputs, b \in OctetInputs, c \in OctetInputs,
        d \in OctetInputs}
        \cup {HostSw1}
        \cup {\* '::1'
              <<58, 58, 49>>,
              \* '0:0:0:0:0:0:0:1'
              <<48, 58, 48, 58, 48, 58, 48, 58, 48, 58, 48, 58, 48, 58, 49>>,
              \* '2001:DB8::'
              <<50, 48, 48, 49, 58, 68, 66, 56, 58, 58>>,
              \* '::ffff:10.0.0.1'
              <<58, 58, 102, 102, 102, 102, 58, 49, 48, 46, 48, 46, 48, 46,
                49>>,
              \* 'fe80::1%1'
              <<102, 101, 56, 48, 58, 58, 49, 37, 49>>}

\* validate_ip_address(ipaddress) on a str, or on None (whose text is
\* empty in args)
validate_call ==
    /\ pc = "idle"
    /\ \E value \in {StrVal(l) : l \in LiteralInputs} \cup {NoneVal} :
         \E answer \in (IF value.tag = "str" THEN getaddrinfo(value.s)
                        ELSE {NoGai}) :
           LET v == validate_ip_address_of(value, answer)
           IN  /\ op' = "validate_ip_address"
               /\ args' = [NoArgs EXCEPT !.ipaddress = value.s]
               /\ gai' = answer
               /\ outcome' = v
               /\ ipaddr' = IF v.kind = "return" THEN v.value.s ELSE <<>>
    /\ pc' = "done"
    /\ UNCHANGED <<cmdstr, cmd, runs, printed, self>>
    /\ UNCHANGED <<oids_table, session, polled>>

\* validate_ip_address(result) on what the first call returned
validate_again ==
    /\ pc = "done"
    /\ op = "validate_ip_address"
    /\ outcome.kind = "return"
    /\ \E answer \in (IF outcome.value.tag = "str"
                      THEN getaddrinfo(outcome.value.s) ELSE {NoGai}) :
           /\ gai' = answer
           /\ outcome' = validate_ip_address_of(outcome.value, answer)
    /\ pc' = "again"
    /\ UNCHANGED <<op, args, ipaddr, cmdstr, cmd, runs, printed, self>>
    /\ UNCHANGED <<oids_table, session, polled>>

\* The caller has the result or the exception
validate_return ==
    /\ pc \in {"done", "again"}
    /\ op = "validate_ip_address"
    /\ pc' = "idle"
    /\ op' = ""
    /\ args' = NoArgs
    /\ gai' = NoGai
    /\ ipaddr' = <<>>
    /\ outcome' = Pending
    /\ UNCHANGED <<cmdstr, cmd, runs, printed, self>>
    /\ UNCHANGED <<oids_table, session, polled>>

NextValidate ==
    \/ validate_call
    \/ validate_again
    \/ validate_return

SpecValidate == Init /\ [][NextValidate]_vars

(***************************************************************************)
(* SwitchInfo of the package (GetSwitchPorts/GetSwitchPorts.py).  Line 136 *)
(* of that file, 'self.portTable =', is an assignment with no right-hand   *)
(* side: the file does not compile, and importing it raises SyntaxError    *)
(* before any of its statements has run.                                   *)
(***************************************************************************)
\* '127.99.99.99', the host of the tests that is not there
Addr127_99_99_99 ==
<<49, 50, 55, 46, 57, 57, 46, 57, 57, 46, 57, 57>>

\* 'bogus_community_string', which the agent of the tests does not know
CommunityBogus ==
<<98, 111, 103, 117, 115, 95, 99, 111, 109, 109, 117, 110, 105, 116,
        121, 95, 115, 116, 114, 105, 110, 103>>

\* The constructor calls tried: those of the tests,
\*   SwitchInfo('invalid-hostname')
\*   SwitchInfo('127.99.99.99', timeout=1)
\*   SwitchInfo('127.0.0.1', 10000, 'bogus_community_string', timeout=1)
\* and SwitchInfo(''), an address that no resolver answers.  What a call
\* leaves out is given as the signature (lines 49-56) names it.
SwitchInputs ==
    LET call(address, port, community_string, timeout) ==
            [ip_address |-> address, port |-> IntVal(port),
             community_string |-> StrVal(community_string),
             filter_type |-> NoneVal, filter_keyword |-> NoneVal,
             verbosity |-> 1, timeout |-> timeout]
    IN  {call(<<105, 110, 118, 97, 108, 105, 100, 45, 104, 111, 115, 116,
                  110, 97, 109, 101>>,
              161, CommunityPublic, 3),
         call(Addr127_99_99_99, 161, CommunityPublic, 1),
         call(<<49, 50, 55, 46, 48, 46, 48, 46, 49>>, 10000,
              CommunityBogus, 1),
         call(<<>>, 161, CommunityPublic, 3)}

\* from GetSwitchPorts.GetSwitchPorts import SwitchInfo, followed by
\* SwitchInfo(...) with the arguments a.  Python compiles the whole file
\* before it runs its first statement, and line 136 does not parse: the
\* import raises SyntaxError('invalid syntax').  No statement of the file
\* has run: there is no table oids and no class SwitchInfo, the call is
\* never made, nothing is printed and no command is started.
import_SwitchInfo ==
    /\ pc = "idle"
    /\ \E a \in SwitchInputs : args' = a
    /\ op' = "SwitchInfo"
    /\ outcome' =
           Raised("SyntaxError",
                  <<105, 110, 118, 97, 108, 105, 100, 32, 115, 121, 110,
                      116, 97, 120>>)
    /\ pc' = "done"
    /\ UNCHANGED <<gai, ipaddr, cmdstr, cmd, runs, printed, self>>
    /\ UNCHANGED <<oids_table, session, polled>>


(***************************************************************************)
(* SwitchInfo of src/GetSwitchPorts.py, the module of the repository that  *)
(* compiles.  It asks the switch through an easysnmp Session; what the     *)
(* Session answers is an input.  Its __init__ runs the polling loop and    *)
(* the statements after it, and filterTable and printInfo are also called  *)
(* on an instance whose attributes are given.                              *)
(***************************************************************************)
\* An attribute that has not been assigned
Unset == [tag |-> "unset", s |-> <<>>, items |-> <<>>]

\* re.search(pattern, desc) of _get_sw_model (lines 180-195), for a
\* pattern that is the text head, any number of times the text first, any
\* number of times the text second, the text tail and then ([\S]+)\b:
\* None, or the text of that last group in the
\* match the matcher finds first (leftmost; as many of first, then of
\* second, then as long a group, as a match allows).  For a desc of ASCII
\* characters.
model_search(head, first, second, tail, desc) ==
    LET n == Len(desc)
        at(t, pos) ==
            /\ pos + Len(t) - 1 <= n
            /\ SubSeq(desc, pos, pos + Len(t) - 1) = t
        most(t, pos) ==
            Max({0} \cup {k \in 1..n :
                              /\ t # <<>>
                              /\ \A j \in 0..(k - 1) :
                                     at(t, pos + j * Len(t))})
        space(c) == c \in (9..13) \cup (28..32)
        word(pos) ==
            /\ pos <= n
            /\ desc[pos] \in (48..57) \cup (65..90) \cup {95} \cup (97..122)
        group(p, r) ==
            /\ p + r - 1 <= n
            /\ \A j \in p..(p + r - 1) : ~space(desc[j])
            /\ word(p + r - 1) # word(p + r)
        groups(p) == {r \in 1..n : group(p, r)}
        seconds(i, k1, p) ==
            {<<i, k1, k2, p + k2 * Len(second) + Len(tail)>> :
                 k2 \in {k \in 0..most(second, p) :
                             at(tail, p + k * Len(second))}}
        firsts(i, p) ==
            UNION {seconds(i, k1, p + k1 * Len(first)) :
                       k1 \in 0..most(first, p)}
        found == {m \in UNION {firsts(i, i + Len(head)) :
                                   i \in {j \in 1..n : at(head, j)}} :
                      groups(m[4]) # {}}
        pick(i, k1, k2) ==
            LET m == CHOOSE c \in found :
                         c[1] = i /\ c[2] = k1 /\ c[3] = k2
            IN  StrVal(SubSeq(desc, m[4], m[4] + Max(groups(m[4])) - 1))
        by_second(i, k1) ==
            pick(i, k1, Max({m[3] : m \in {c \in found :
                                               c[1] = i /\ c[2] = k1}}))
        by_first(i) ==
            by_second(i, Max({m[2] : m \in {c \in found : c[1] = i}}))
    IN  IF found = {} THEN NoneVal
        ELSE by_first(Min({m[1] : m \in found}))

\* r'Cisco IOS Software, (IOS-XE Software, )*(Catalyst )*([\S]+)\b'
cisco_model(desc) ==
    model_search(<<67, 105, 115, 99, 111, 32, 73, 79, 83, 32, 83, 111, 102,
        116, 119, 97, 114, 101, 44, 32>>,
                 <<73, 79, 83, 45, 88, 69, 32, 83, 111, 102, 116, 119, 97,
                     114, 101, 44, 32>>,
                 <<67, 97, 116, 97, 108, 121, 115, 116, 32>>, <<>>, desc)

\* r'Ethernet (Routing )*Switch ([\S]+)\b'
nortel_model(desc) ==
    model_search(<<69, 116, 104, 101, 114, 110, 101, 116, 32>>,
                 <<82, 111, 117, 116, 105, 110, 103, 32>>, <<>>,
                 <<83, 119, 105, 116, 99, 104, 32>>, desc)

\* 'vlan'
KeyVlan ==
    <<118, 108, 97, 110>>

\* The dict the polling loop builds for one interface: 'vlan', 'name' and
\* 'desc', in that order
Interface(vlan, name, desc) ==
    DictVal(<<TupleVal(<<StrVal(KeyVlan), vlan>>),
              TupleVal(<<StrVal(<<110, 97, 109, 101>>), name>>),
              TupleVal(<<StrVal(KeyDesc), desc>>)>>)

\* re.search(pattern, string), for a pattern in which '.' (any character
\* but a line feed) is the only special character: every other character,
\* the backspace '\b' of a non-raw literal included, stands for itself.  The
\* result is None or the leftmost match, kept as the text it matched.  An
\* argument that is not a str is a TypeError.
re_search(pattern, string) ==
    IF pattern.tag # "str" \/ string.tag # "str"
    THEN Raised("TypeError", <<>>)
    ELSE LET p == pattern.s
             t == string.s
             starts ==
                 {i \in 1..(Len(t) - Len(p) + 1) :
                      \A k \in 1..Len(p) :
                          IF p[k] = 46 THEN t[i + k - 1] # 10
                          ELSE t[i + k - 1] = p[k]}
         IN  IF starts = {} THEN Returned(NoneVal)
             ELSE Returned([tag |-> "Match",
                            s |-> SubSeq(t, Min(starts),
                                         Min(starts) + Len(p) - 1),
                            items |-> <<>>])

\* The loop of filterTable (lines 130-135) over the interfaces left, result
\* being the list built so far.  An exception leaves self.result as it was
\* built.
RECURSIVE filter_loop(_, _, _, _)
filter_loop(ports, filter_type, filter_keyword, result) ==
    IF ports = <<>>
    THEN [outcome |-> Returned(NoneVal), result |-> ListVal(result)]
    ELSE
      LET interface == ports[1]
          stop(exc) ==
              [outcome |-> Raised(exc, <<>>), result |-> ListVal(result)]
          desc == dict_get(interface, StrVal(KeyDesc))
          by_desc ==
              IF filter_type # StrVal(KeyDesc) THEN Returned(NoneVal)
              ELSE IF desc.kind # "return" THEN Raised("KeyError", <<>>)
              ELSE re_search(filter_keyword, desc.value)
          \* '\b' + filter_keyword + '\b'
          bounded ==
              IF filter_keyword.tag # "str" THEN NoneVal
              ELSE StrVal(<<8>> \o filter_keyword.s \o <<8>>)
          cell == dict_get(interface, filter_type)
          by_type ==
              IF bounded = NoneVal THEN Raised("TypeError", <<>>)
              ELSE IF cell.kind # "return" THEN Raised("KeyError", <<>>)
              ELSE re_search(bounded, cell.value)
      IN  IF by_desc.kind = "raise" THEN stop(by_desc.exc)
          ELSE IF by_desc.value # NoneVal
          THEN filter_loop(Tail(ports), filter_type, filter_keyword,
                           Append(result, interface))
          ELSE IF by_type.kind = "raise" THEN stop(by_type.exc)
          ELSE IF by_type.value # NoneVal
          THEN filter_loop(Tail(ports), filter_type, filter_keyword,
                           Append(result, interface))
          ELSE filter_loop(Tail(ports), filter_type, filter_keyword, result)

\* filterTable(self, filter_type, filter_keyword), lines 117-137: how the
\* call ends and what it leaves in self.result.  The keyword defaults to
\* 'UNUSED' for 'desc' and to '2' for 'vlan'; a portTable that is None or
\* empty gives result None.
filterTable(portTable, filter_type, filter_keyword) ==
    LET keyword1 ==
            IF filter_keyword = NoneVal /\ filter_type = StrVal(KeyDesc)
            THEN StrVal(<<85, 78, 85, 83, 69, 68>>)
            ELSE filter_keyword
        keyword2 ==
            IF keyword1 = NoneVal /\ filter_type = StrVal(KeyVlan)
            THEN StrVal(<<50>>)
            ELSE keyword1
    IN  IF portTable.tag = "list" /\ portTable.items # <<>>
        THEN filter_loop(portTable.items, filter_type, keyword2, <<>>)
        ELSE [outcome |-> Returned(NoneVal), result |-> NoneVal]

\* The port tables tried: None, and the lists of at most MaxPorts of
\*   {'vlan': '2', 'name': 'Gi0/1', 'desc': 'UNUSED'}
\*   {'vlan': '20', 'name': 'Gi0/2', 'desc': 'uplink'}
\*   {'vlan': '2', 'name': 'Gi0/3', 'desc': 'x UNUSED 2'}
\*   {'vlan': None, 'name': 'Gi0/4', 'desc': None}
PortTableInputs ==
    LET name(n) == StrVal(<<71, 105, 48, 47, 48 + n>>)
        interfaces ==
            {Interface(StrVal(<<50>>), name(1),
                       StrVal(<<85, 78, 85, 83, 69, 68>>)),
             Interface(StrVal(<<50, 48>>), name(2),
                       StrVal(<<117, 112, 108, 105, 110, 107>>)),
             Interface(StrVal(<<50>>), name(3),
                       StrVal(<<120, 32, 85, 78, 85, 83, 69, 68, 32, 50>>)),
             Interface(NoneVal, name(4), NoneVal)}
    IN  {NoneVal}
            \cup {ListVal(ports) :
                     ports \in UNION {[1..n -> interfaces] :
                                          n \in 0..MaxPorts}}

\* The filters tried: 'desc' and 'vlan', each with no keyword and with the
\* keywords 'UNUSED', '2' and 'U.U'
FilterInputs ==
    [filter_type : {StrVal(KeyDesc), StrVal(KeyVlan)},
     filter_keyword : {NoneVal, StrVal(<<85, 78, 85, 83, 69, 68>>),
                       StrVal(<<50>>), StrVal(<<85, 46, 85>>)}]

\* self.swInfo as lines 81-85 leave it, with _get_sw_name, _get_sw_make and
\* _get_sw_model (lines 164-195): name and desc are the values of sysName
\* and sysDescr
legacy_swInfo(address, name, desc) ==
    LET make == IF Contains(<<67, 105, 115, 99, 111>>, desc)
                THEN StrVal(<<99, 105, 115, 99, 111>>)
                ELSE IF Contains(<<78, 111, 114, 116, 101, 108>>, desc)
                        \/ Contains(<<65, 118, 97, 121, 97>>, desc)
                     THEN StrVal(<<110, 111, 114, 116, 101, 108>>)
                     ELSE NoneVal
        \* 'unknown model'
        or_unknown(match) ==
            IF match = NoneVal
            THEN StrVal(<<117, 110, 107, 110, 111, 119, 110, 32, 109, 111,
                100, 101, 108>>)
            ELSE match
        model == IF make = StrVal(<<99, 105, 115, 99, 111>>)
                 THEN or_unknown(cisco_model(desc))
                 ELSE IF make = StrVal(<<110, 111, 114, 116, 101, 108>>)
                      THEN or_unknown(nortel_model(desc))
                      ELSE NoneVal
    IN  DictVal(<<TupleVal(<<StrVal(<<73, 80>>), StrVal(address)>>),
                  TupleVal(<<StrVal(<<110, 97, 109, 101>>),
                             StrVal(IF name = <<>>
                                    THEN <<78, 111, 32, 110, 97, 109, 101, 32,
                                        100, 101, 102, 105, 110, 101, 100>>
                                    ELSE name)>>),
                  TupleVal(<<StrVal(<<109, 97, 107, 101>>), make>>),
                  TupleVal(<<StrVal(<<109, 111, 100, 101, 108>>), model>>)>>)

\* instance.filterTable(filter_type, filter_keyword) on an instance with
\* the given portTable, no result yet, and the swInfo {'IP': '10.0.0.1',
\* 'name': 'sw1', 'make': 'cisco', 'model': 'unknown model'}
filterTable_call ==
    /\ pc = "idle"
    /\ \E portTable \in PortTableInputs, f \in FilterInputs :
         LET r == filterTable(portTable, f.filter_type, f.filter_keyword)
         IN  /\ args' = [self |-> portTable,
                         filter_type |-> f.filter_type,
                         filter_keyword |-> f.filter_keyword]
             /\ outcome' = r.outcome
             /\ self' = [made |-> TRUE,
                         swInfo |-> legacy_swInfo(Addr10_0_0_1, HostSw1,
                                                  <<67, 105, 115, 99, 111>>),
                         portTable |-> portTable,
                         result |-> r.result]
    /\ op' = "filterTable"
    /\ pc' = "done"
    /\ UNCHANGED <<gai, ipaddr, cmdstr, cmd, runs, printed>>
    /\ UNCHANGED <<oids_table, session, polled>>

\* s.ljust(width)
ljust(s, width) ==
    s \o [i \in 1..(IF Len(s) < width THEN width - Len(s) ELSE 0) |-> 32]

\* The lines printInfo (lines 153-159) prints for the ports left and how it
\* ends: one line
\* per port of result, then their number.  A port whose name or VLAN is
\* None has no ljust (AttributeError); a description of None is printed as
\* 'None'.  n is the length of the whole result.
RECURSIVE printInfo_ports(_, _)
printInfo_ports(items, n) ==
    IF items = <<>>
    THEN [outcome |-> Returned(NoneVal),
          printed |->
              \* 'Number of ports listed: '
              <<<<78, 117, 109, 98, 101, 114, 32, 111, 102, 32, 112, 111, 114,
                  116, 115, 32, 108, 105, 115, 116, 101, 100, 58, 32>>
                    \o Str(n)>>]
    ELSE LET name == dict_get(items[1], StrVal(<<110, 97, 109, 101>>)).value
             vlan == dict_get(items[1], StrVal(KeyVlan)).value
             desc == dict_get(items[1], StrVal(KeyDesc)).value
             rest == printInfo_ports(Tail(items), n)
         IN  IF name.tag # "str" \/ vlan.tag # "str"
             THEN [outcome |-> Raised("AttributeError", <<>>),
                   printed |-> <<>>]
             ELSE [outcome |-> rest.outcome,
                   printed |->
                       \* '   Port: {0}   Vlan: {1}    Desc: {2}'
                       <<<<32, 32, 32, 80, 111, 114, 116, 58, 32>>
                             \o ljust(name.s, 25)
                             \o <<32, 32, 32, 86, 108, 97, 110, 58, 32>>
                             \o ljust(vlan.s, 14)
                             \o <<32, 32, 32, 32, 68, 101, 115, 99, 58, 32>>
                             \o format(desc)>>
                           \o rest.printed]

\* What printInfo prints and how it ends, for the text its first line gives
\* as the make: 'IP: {0} Name: {1} Make: {2} Model: {3}', then 'No port
\* descriptions were found matching ' or the ports of result
printInfo_lines(info, make, result) ==
    LET of(key) == format(dict_get(info, StrVal(key)).value)
        heading ==
            <<73, 80, 58, 32>> \o of(<<73, 80>>)
                \o <<32, 78, 97, 109, 101, 58, 32>> \o of(<<110, 97, 109,
                    101>>)
                \o <<32, 77, 97, 107, 101, 58, 32>> \o make
                \o <<32, 77, 111, 100, 101, 108, 58, 32>> \o of(<<109, 111,
                    100, 101, 108>>)
        rest == IF result = NoneVal
                THEN [outcome |-> Returned(NoneVal),
                      printed |->
                          <<<<78, 111, 32, 112, 111, 114, 116, 32, 100, 101,
                              115, 99, 114, 105, 112, 116, 105, 111, 110, 115,
                              32, 119, 101, 114, 101, 32, 102, 111, 117, 110,
                              100, 32, 109, 97, 116, 99, 104, 105, 110, 103,
                              32>>>>]
                ELSE printInfo_ports(result.items, Len(result.items))
    IN  [outcome |-> rest.outcome, printed |-> <<heading>> \o rest.printed]

\* What the switch answers the Session: sysName, sysDescr, and for each
\* index that the walk of ifIndex gives, in that order, the native VLAN,
\* ifName, ifAlias and ifType of the interface.  At most MaxPorts of
\*   VLAN '2', 'Gi0/1', 'UNUSED', ifType '6'
\*   VLAN '20', 'Gi0/2', 'uplink', ifType '6'
\*   VLAN '1', 'Vl1', '', ifType '53'
SessionAnswers ==
    LET interfaces ==
            {[vlan |-> <<50>>, name |-> <<71, 105, 48, 47, 49>>,
              desc |-> <<85, 78, 85, 83, 69, 68>>, type |-> <<54>>],
             [vlan |-> <<50, 48>>, name |-> <<71, 105, 48, 47, 50>>,
              desc |-> <<117, 112, 108, 105, 110, 107>>, type |-> <<54>>],
             [vlan |-> <<49>>, name |-> <<86, 108, 49>>, desc |-> <<>>,
              type |-> <<53, 51>>]}
    IN  [sysName : {HostSw1, <<>>},
         sysDescr : {\* 'Cisco IOS Software, C2960 Software'
                     <<67, 105, 115, 99, 111, 32, 73, 79, 83, 32, 83, 111,
                         102, 116, 119, 97, 114, 101, 44, 32, 67, 50, 57, 54,
                         48, 32, 83, 111, 102, 116, 119, 97, 114, 101>>,
                     \* 'Nortel Ethernet Routing Switch 5520-48T'
                     <<78, 111, 114, 116, 101, 108, 32, 69, 116, 104, 101,
                         114, 110, 101, 116, 32, 82, 111, 117, 116, 105, 110,
                         103, 32, 83, 119, 105, 116, 99, 104, 32, 53, 53, 50,
                         48, 45, 52, 56, 84>>,
                     \* 'Linux'
                     <<76, 105, 110, 117, 120>>},
         interfaces : UNION {[1..n -> interfaces] : n \in 0..MaxPorts}]

\* One request to the Session: get or walk, the OID asked for, and for a
\* get of (oid, index) the place of the index in the list of interfaces
\* (0 for a request with no index)
request(call, oid, index) ==
    [call |-> call, oid |-> oid, index |-> index]

\* What one turn of the loop asks the Session, lines 96-101 with
\* getNativeVlan, getIfName, getIfDescription and getIfType (lines
\* 204-228): oids[make]['nativeVlan'] for the makes 'cisco' and 'nortel',
\* then oids['ifName'], oids['ifAlias'] and oids['ifType']
poll_requests(make, index) ==
    (IF make = NoneVal THEN <<>>
     ELSE <<request("get",
                    dict_get(dict_get(oids_table, make).value,
                             StrVal(<<110, 97, 116, 105, 118, 101, 86, 108, 97,
                                     110>>)).value.s,
                    index)>>)
        \o <<request("get", oid_of(<<105, 102, 78, 97, 109, 101>>), index),
             request("get", oid_of(<<105, 102, 65, 108, 105, 97, 115>>), index),
             request("get", oid_of(<<105, 102, 84, 121, 112, 101>>), index)>>

\* __new__, lines 44-64, called by operation (the constructor call
\* SwitchInfo(...) itself, or main) with the arguments a: the connection
\* test is a get of oids['sysDescr'] through a Session.  When it raises,
\* the handler asks the exception for .message, which an exception of
\* Python 3 does not have: AttributeError, and nothing is printed.
\* Otherwise object.__new__ is handed the arguments after community_string,
\* and takes none: TypeError.  With no such argument the instance is made
\* and __init__ is called.
legacy_New(operation, a, connected) ==
    /\ op' = operation
    /\ args' = [ip_address |-> a.ip_address,
                community_string |-> a.community_string,
                more |-> a.more, filter_type |-> NoneVal,
                filter_keyword |-> NoneVal]
    /\ session' =
           [NoSession EXCEPT !.asked =
                <<request("get", oid_of(<<115, 121, 115, 68, 101, 115, 99, 114>>), 0)>>]
    /\ IF ~connected
       THEN /\ outcome' = Raised("AttributeError", <<>>)
            /\ pc' = "done"
            /\ UNCHANGED self
       ELSE IF a.more # <<>>
       THEN /\ outcome' =
                   Raised("TypeError",
                          <<111, 98, 106, 101, 99, 116, 46, 95, 95, 110,
                              101, 119, 95, 95, 40, 41, 32, 116, 97, 107,
                              101, 115, 32, 101, 120, 97, 99, 116, 108, 121,
                              32, 111, 110, 101, 32, 97, 114, 103, 117, 109,
                              101, 110, 116, 32, 40, 116, 104, 101, 32, 116,
                              121, 112, 101, 32, 116, 111, 32, 105, 110,
                              115, 116, 97, 110, 116, 105, 97, 116, 101,
                              41>>)
            /\ pc' = "done"
            /\ UNCHANGED self
       ELSE /\ self' = [made |-> TRUE, swInfo |-> Unset,
                        portTable |-> Unset, result |-> Unset]
            /\ pc' = "legacy_init"
            /\ UNCHANGED outcome
    /\ UNCHANGED <<gai, ipaddr, cmdstr, cmd, runs, printed>>
    /\ UNCHANGED <<oids_table, polled>>

\* SwitchInfo('10.0.0.1', 'public'), and the same with the two further
\* arguments that main (line 271) passes, here None, None; the switch
\* answers the connection test or does not
legacy_new ==
    /\ pc = "idle"
    /\ \E more \in {<<>>, <<NoneVal, NoneVal>>}, connected \in BOOLEAN :
         legacy_New("legacy.SwitchInfo",
                    [ip_address |-> Addr10_0_0_1,
                     community_string |-> StrVal(CommunityPublic),
                     more |-> more],
                    connected)

\* The filters __init__ is given.  The constructor call hands __init__ the
\* arguments of __new__, which makes an instance only when there is none
\* after community_string: no filter.  A call of __init__ by name on the
\* instance __new__ returned can pass the filters of FilterInputs, or a
\* filter_type of ''.
LegacyFilters ==
    FilterInputs
        \cup [filter_type : {NoneVal, StrVal(<<>>)},
              filter_keyword : {NoneVal, StrVal(<<50>>)}]

\* __init__ taking oids['sysName'] out of the table once it has asked for
\* it (a variant of legacy_init that C23 must tell apart)
legacy_init_consuming ==
    /\ pc = "legacy_init"
    /\ \E f \in LegacyFilters, answers \in SessionAnswers :
         /\ session' =
                [sysName |-> answers.sysName, sysDescr |-> answers.sysDescr,
                 interfaces |-> answers.interfaces,
                 asked |->
                     session.asked
                         \o <<request("get", oid_of(<<115, 121, 115, 78, 97, 109, 101>>), 0),
                              request("get", oid_of(<<115, 121, 115, 68, 101, 115, 99, 114>>), 0),
                              request("get", oid_of(<<115, 121, 115, 68, 101, 115, 99, 114>>), 0),
                              request("walk", oid_of(<<105, 102, 73, 110, 100, 101, 120>>), 0)>>]
         /\ args' = [args EXCEPT !.filter_type = f.filter_type,
                                 !.filter_keyword = f.filter_keyword]
         /\ self' = [made |-> TRUE,
                     swInfo |-> legacy_swInfo(args.ip_address,
                                              answers.sysName,
                                              answers.sysDescr),
                     portTable |-> ListVal(<<>>), result |-> Unset]
    /\ printed' = <<<<71, 97, 116, 104, 101, 114, 105, 110, 103, 32, 112,
        111, 114, 116, 32, 100, 97, 116, 97, 46, 46, 46>>>>
    /\ polled' = 0
    /\ pc' = "legacy_loop"
    /\ op' = "legacy.__init__"
    /\ UNCHANGED <<gai, ipaddr, cmdstr, cmd, runs, outcome>>
    /\ oids_table' =
           DictVal(dict_set(oids_table.items,
                            StrVal(<<115, 121, 115, 78, 97, 109, 101>>),
                            StrVal(<<>>)))

\* __init__, lines 78-91, up to the polling loop: the Session, swInfo from
\* sysName and sysDescr (_get_sw_name gets oids['sysName'], _get_sw_make
\* and _get_sw_model each get oids['sysDescr']), the list of interface
\* indexes from a walk of oids['ifIndex'], 'Gathering port data...'
\* printed, and portTable an empty list
legacy_init ==
    /\ pc = "legacy_init"
    /\ \E f \in LegacyFilters, answers \in SessionAnswers :
         /\ session' =
                [sysName |-> answers.sysName, sysDescr |-> answers.sysDescr,
                 interfaces |-> answers.interfaces,
                 asked |->
                     session.asked
                         \o <<request("get", oid_of(<<115, 121, 115, 78, 97, 109, 101>>), 0),
                              request("get", oid_of(<<115, 121, 115, 68, 101, 115, 99, 114>>), 0),
                              request("get", oid_of(<<115, 121, 115, 68, 101, 115, 99, 114>>), 0),
                              request("walk", oid_of(<<105, 102, 73, 110, 100, 101, 120>>), 0)>>]
         /\ args' = [args EXCEPT !.filter_type = f.filter_type,
                                 !.filter_keyword = f.filter_keyword]
         /\ self' = [made |-> TRUE,
                     swInfo |-> legacy_swInfo(args.ip_address,
                                              answers.sysName,
                                              answers.sysDescr),
                     portTable |-> ListVal(<<>>), result |-> Unset]
    /\ printed' = <<<<71, 97, 116, 104, 101, 114, 105, 110, 103, 32, 112,
        111, 114, 116, 32, 100, 97, 116, 97, 46, 46, 46>>>>
    /\ polled' = 0
    /\ pc' = "legacy_loop"
    /\ op' = "legacy.__init__"
    /\ UNCHANGED <<gai, ipaddr, cmdstr, cmd, runs, outcome>>
    /\ UNCHANGED oids_table

\* One turn of the loop appending the interface whatever its ifType (a
\* variant of legacy_poll that C19 must tell apart)
legacy_poll_unfiltered ==
    /\ pc = "legacy_loop"
    /\ polled < Len(session.interfaces)
    /\ LET make == dict_get(self.swInfo, StrVal(<<109, 97, 107, 101>>)).value
           entry(interface) ==
               Interface(IF make = NoneVal THEN NoneVal
                         ELSE StrVal(interface.vlan),
                         StrVal(interface.name), StrVal(interface.desc))
       IN  /\ printed' =
                  printed \o
                      (IF make = NoneVal
                       THEN <<<<78, 97, 116, 105, 118, 101, 32, 118, 108, 97,
                           110, 32, 100, 101, 116, 101, 99, 116, 105, 111,
                           110, 32, 110, 111, 116, 32, 115, 117, 112, 112,
                           111, 114, 116, 101, 100, 32, 102, 111, 114, 32,
                           116, 104, 105, 115, 32, 115, 119, 105, 116, 99,
                           104>>>>
                       ELSE <<>>)
           /\ self' = [self EXCEPT !.portTable =
                           ListVal(@.items \o
                               <<entry(session.interfaces[polled + 1])>>)]
    /\ session' =
           [session EXCEPT !.asked =
                @ \o poll_requests(dict_get(self.swInfo,
                                            StrVal(<<109, 97, 107,
                                                101>>)).value,
                                   polled + 1)]
    /\ polled' = polled + 1
    /\ UNCHANGED <<pc, op, args, gai, ipaddr, cmdstr, cmd, runs, outcome>>
    /\ UNCHANGED oids_table

\* One turn of the loop, lines 94-103, for the next interface of the list.
\* getNativeVlan knows the makes 'cisco' and 'nortel'; for another it
\* prints a line and the VLAN is None.  The dict of the interface is
\* appended to portTable when getIfType gives 'ethernet': an ifType of '6'.
\* The OIDs asked for are read from the table oids (poll_requests).
legacy_poll ==
    /\ pc = "legacy_loop"
    /\ polled < Len(session.interfaces)
    /\ LET make == dict_get(self.swInfo, StrVal(<<109, 97, 107, 101>>)).value
           entry(interface) ==
               Interface(IF make = NoneVal THEN NoneVal
                         ELSE StrVal(interface.vlan),
                         StrVal(interface.name), StrVal(interface.desc))
           getIfType(interface) ==
               IF interface.type = <<54>>
               THEN <<101, 116, 104, 101, 114, 110, 101, 116>>
               ELSE <<117, 110, 107, 110, 111, 119, 110, 32, 105, 102, 84,
                      121, 112, 101, 58, 32>> \o interface.type
           appended(interface) ==
               IF getIfType(interface)
                      = <<101, 116, 104, 101, 114, 110, 101, 116>>
               THEN <<entry(interface)>>
               ELSE <<>>
       IN  /\ printed' =
                  printed \o
                      (IF make = NoneVal
                       THEN <<<<78, 97, 116, 105, 118, 101, 32, 118, 108, 97,
                           110, 32, 100, 101, 116, 101, 99, 116, 105, 111,
                           110, 32, 110, 111, 116, 32, 115, 117, 112, 112,
                           111, 114, 116, 101, 100, 32, 102, 111, 114, 32,
                           116, 104, 105, 115, 32, 115, 119, 105, 116, 99,
                           104>>>>
                       ELSE <<>>)
           /\ self' = [self EXCEPT !.portTable =
                           ListVal(@.items \o
                               appended(session.interfaces[polled + 1]))]
    /\ session' =
           [session EXCEPT !.asked =
                @ \o poll_requests(dict_get(self.swInfo,
                                            StrVal(<<109, 97, 107,
                                                101>>)).value,
                                   polled + 1)]
    /\ polled' = polled + 1
    /\ UNCHANGED <<pc, op, args, gai, ipaddr, cmdstr, cmd, runs, outcome>>
    /\ UNCHANGED oids_table

\* The end of __init__ running filterTable whenever a filter is given, and
\* ending with the whole portTable otherwise (a variant of legacy_finish
\* that C22 must tell apart)
legacy_finish_always_filters ==
    /\ pc = "legacy_loop"
    /\ polled = Len(session.interfaces)
    /\ IF args.filter_type.tag = "str" /\ args.filter_type.s # <<>>
       THEN /\ pc' = "filter"
            /\ UNCHANGED <<self, outcome>>
       ELSE /\ self' = [self EXCEPT !.result = self.portTable]
            /\ outcome' = Returned(NoneVal)
            /\ pc' = "done"
    /\ UNCHANGED <<op, args, gai, ipaddr, cmdstr, cmd, runs, printed>>
    /\ UNCHANGED <<oids_table, session, polled>>

\* __init__ once the loop is through the list, lines 104-114, as far as the
\* call of filterTable: an empty list makes portTable and result None; a
\* filter_type that is true goes on to filterTable; otherwise result is
\* portTable.
legacy_finish ==
    /\ pc = "legacy_loop"
    /\ polled = Len(session.interfaces)
    /\ IF self.portTable.items = <<>>
       THEN /\ self' = [self EXCEPT !.portTable = NoneVal,
                                    !.result = NoneVal]
            /\ outcome' = Returned(NoneVal)
            /\ pc' = "done"
       ELSE IF args.filter_type.tag = "str" /\ args.filter_type.s # <<>>
       THEN /\ pc' = "filter"
            /\ UNCHANGED <<self, outcome>>
       ELSE /\ self' = [self EXCEPT !.result = self.portTable]
            /\ outcome' = Returned(NoneVal)
            /\ pc' = "done"
    /\ UNCHANGED <<op, args, gai, ipaddr, cmdstr, cmd, runs, printed>>
    /\ UNCHANGED <<oids_table, session, polled>>

\* __init__, line 112: self.filterTable(filter_type, filter_keyword)
legacy_filter ==
    /\ pc = "filter"
    /\ LET r == filterTable(self.portTable, args.filter_type,
                            args.filter_keyword)
       IN  /\ outcome' = r.outcome
           /\ self' = [self EXCEPT !.result = r.result]
    /\ pc' = "done"
    /\ UNCHANGED <<op, args, gai, ipaddr, cmdstr, cmd, runs, printed>>
    /\ UNCHANGED <<oids_table, session, polled>>

\* s.capitalize() for a str of ASCII characters
capitalize(s) ==
    [i \in 1..Len(s) |->
         IF i = 1 /\ s[i] \in 97..122 THEN s[i] - 32
         ELSE IF i > 1 /\ s[i] \in 65..90 THEN s[i] + 32
         ELSE s[i]]

\* instance.printInfo(), lines 139-159, on an instance __init__ has
\* completed or filterTable was called on: the make is capitalized, and a
\* make of None has no capitalize (AttributeError, before anything is
\* printed)
legacy_printInfo ==
    /\ pc = "done"
    /\ op \in {"legacy.__init__", "filterTable"}
    /\ outcome.kind = "return"
    /\ LET make == dict_get(self.swInfo, StrVal(<<109, 97, 107, 101>>)).value
           r == IF make = NoneVal
                THEN [outcome |-> Raised("AttributeError", <<>>),
                      printed |-> <<>>]
                ELSE printInfo_lines(self.swInfo, capitalize(make.s),
                                     self.result)
       IN  /\ printed' = printed \o r.printed
           /\ outcome' = r.outcome
    /\ op' = "legacy.printInfo"
    /\ UNCHANGED <<pc, args, gai, ipaddr, cmdstr, cmd, runs, self>>
    /\ UNCHANGED <<oids_table, session, polled>>

NextFilter ==
    \/ filterTable_call
    \/ legacy_new
    \/ legacy_init
    \/ legacy_poll
    \/ legacy_finish
    \/ legacy_filter
    \/ legacy_printInfo
    \/ Return

SpecFilter == Init /\ [][NextFilter]_vars

(***************************************************************************)
(* src/GetSwitchPorts.py run as a script, and python -m GetSwitchPorts.    *)
(***************************************************************************)
\* parser.parse_args() for the three positional arguments of lines 276-279,
\* argv[0] being the program's name.  The first '--' only marks what follows
\* as positional; a string before it that starts with '-', is longer than
\* that, is no negative number (a '-', decimal digits of any script around
\* at most one '.', at least one after it, and at most one line feed at the
\* end) and holds no space is an option, and the parser has none.  One to
\* three positionals are left; SEARCH_TYPE and SEARCH_WORD are None when
\* not given or given as '--'; a SEARCH_TYPE that is given is 'desc' or
\* 'vlan'.  ok is FALSE when the parser ends the program (SystemExit).
parse_args(argv) ==
    LET arg_strings == Tail(argv)
        markers == {i \in 1..Len(arg_strings) : arg_strings[i] = <<45, 45>>}
        marker == IF markers = {} THEN Len(arg_strings) + 1 ELSE Min(markers)
        \* '\d' of a str pattern: the decimal digits of Unicode (category
        \* Nd), as ranges <<first, last>> of code points
        DecimalDigits ==
            {<<48, 57>>, <<1632, 1641>>, <<1776, 1785>>, <<1984, 1993>>,
             <<2406, 2415>>, <<2534, 2543>>, <<2662, 2671>>,
             <<2790, 2799>>, <<2918, 2927>>, <<3046, 3055>>,
             <<3174, 3183>>, <<3302, 3311>>, <<3430, 3439>>,
             <<3558, 3567>>, <<3664, 3673>>, <<3792, 3801>>,
             <<3872, 3881>>, <<4160, 4169>>, <<4240, 4249>>,
             <<6112, 6121>>, <<6160, 6169>>, <<6470, 6479>>,
             <<6608, 6617>>, <<6784, 6793>>, <<6800, 6809>>,
             <<6992, 7001>>, <<7088, 7097>>, <<7232, 7241>>,
             <<7248, 7257>>, <<42528, 42537>>, <<43216, 43225>>,
             <<43264, 43273>>, <<43472, 43481>>, <<43504, 43513>>,
             <<43600, 43609>>, <<44016, 44025>>, <<65296, 65305>>,
             <<66720, 66729>>, <<68912, 68921>>, <<69734, 69743>>,
             <<69872, 69881>>, <<69942, 69951>>, <<70096, 70105>>,
             <<70384, 70393>>, <<70736, 70745>>, <<70864, 70873>>,
             <<71248, 71257>>, <<71360, 71369>>, <<71472, 71481>>,
             <<71904, 71913>>, <<72016, 72025>>, <<72784, 72793>>,
             <<73040, 73049>>, <<73120, 73129>>, <<92768, 92777>>,
             <<92864, 92873>>, <<93008, 93017>>, <<120782, 120831>>,
             <<123200, 123209>>, <<123632, 123641>>, <<125264, 125273>>,
             <<130032, 130041>>}
        digits(t) ==
            \A i \in 1..Len(t) :
                \E r \in DecimalDigits : t[i] \in r[1]..r[2]
        \* '^-\d+$|^-\d*\.\d+$' on a, which starts with '-' and has its '.'
        \* at dots
        number(a, dots) ==
            \/ Len(a) > 1 /\ digits(Tail(a))
            \/ \E d \in dots :
                   /\ d < Len(a)
                   /\ digits(SubSeq(a, 2, d - 1))
                   /\ digits(SubSeq(a, d + 1, Len(a)))
        \* _negative_number_matcher.match(a), for a as far as the '$' of
        \* the pattern
        negative_number(a) == number(a, {i \in 2..Len(a) : a[i] = 46})
        \* '$' is the end of the string, or the place before a line feed
        \* that ends it
        option(a) ==
            /\ Len(a) > 1
            /\ a[1] = 45
            /\ ~negative_number(IF a[Len(a)] = 10
                                THEN SubSeq(a, 1, Len(a) - 1)
                                ELSE a)
            /\ \A i \in 1..Len(a) : a[i] # 32
        positionals ==
            SubSeq(arg_strings, 1, marker - 1)
                \o SubSeq(arg_strings, marker + 1, Len(arg_strings))
        value(i) ==
            IF i <= Len(positionals) /\ positionals[i] # <<45, 45>>
            THEN StrVal(positionals[i])
            ELSE NoneVal
        parsed(n, search_type) ==
            IF \/ \E i \in 1..(marker - 1) : option(arg_strings[i])
               \/ n \notin 1..3
               \/ search_type \notin {NoneVal, StrVal(KeyDesc),
                                      StrVal(KeyVlan)}
            THEN [ok |-> FALSE, IP_ADDRESS |-> <<>>,
                  SEARCH_TYPE |-> NoneVal, SEARCH_WORD |-> NoneVal]
            ELSE [ok |-> TRUE, IP_ADDRESS |-> positionals[1],
                  SEARCH_TYPE |-> search_type, SEARCH_WORD |-> value(3)]
    IN  parsed(Len(positionals), value(2))

\* The command lines tried, argv[0] being 'GetSwitchPorts': no argument,
\* '-h', '10.0.0.1', 'sw1 desc', '10.0.0.1 vlan 5', '10.0.0.1 name',
\* '10.0.0.1 desc UNUSED more', '10.0.0.1 -v', and '10.0.0.1' with 'desc'
\* and '-1' and a line feed, with 'vlan' and '-' and ARABIC-INDIC DIGIT
\* THREE, and with 'vlan' and '-1' and two line feeds
ArgvInputs ==
    {<<<<71, 101, 116, 83, 119, 105, 116, 99, 104, 80, 111, 114, 116,
        115>>>> \o arguments :
         arguments \in
             {<<>>,
              <<<<45, 104>>>>,
              <<Addr10_0_0_1>>,
              <<HostSw1, KeyDesc>>,
              <<Addr10_0_0_1, KeyVlan, <<53>>>>,
              <<Addr10_0_0_1, <<110, 97, 109, 101>>>>,
              <<Addr10_0_0_1, KeyDesc, <<85, 78, 85, 83, 69, 68>>,
                <<109, 111, 114, 101>>>>,
              <<Addr10_0_0_1, <<45, 118>>>>,
              <<Addr10_0_0_1, KeyDesc, <<45, 49, 10>>>>,
              <<Addr10_0_0_1, KeyVlan, <<45, 1635>>>>,
              <<Addr10_0_0_1, KeyVlan, <<45, 49, 10, 10>>>>}}

\* python -m GetSwitchPorts with the command line argv: __main__.py runs as
\* far as line 33, 'from .GetSwitchPorts import SwitchInfo', which raises
\* the SyntaxError of import_SwitchInfo.  main (lines 36-49) is never
\* defined: nothing is printed, for '-h' as for any other command line.
main_module ==
    /\ pc = "idle"
    /\ \E argv \in ArgvInputs : args' = [argv |-> argv]
    /\ op' = "__main__"
    /\ outcome' =
           Raised("SyntaxError",
                  <<105, 110, 118, 97, 108, 105, 100, 32, 115, 121, 110,
                      116, 97, 120>>)
    /\ pc' = "done"
    /\ UNCHANGED <<gai, ipaddr, cmdstr, cmd, runs, printed, self>>
    /\ UNCHANGED <<oids_table, session, polled>>

\* python GetSwitchPorts.py with the command line argv, lines 274-287.
\* With no argument, or '-h' or '--help' first, the docstring of main is
\* printed.  Otherwise the arguments are parsed, getpass() asks for the
\* community string (here 'public' or '161'), and main (lines 244-272)
\* calls SwitchInfo with the address, the community string, SEARCH_TYPE
\* and SEARCH_WORD: __new__ is handed the last two as further arguments,
\* so the call ends in __new__ with an exception (see legacy_New) and
\* switch.printInfo() is not reached.
legacy_main ==
    /\ pc = "idle"
    /\ \E argv \in ArgvInputs,
          community_string \in {CommunityPublic, <<49, 54, 49>>},
          connected \in BOOLEAN :
         LET parsed(a) ==
                 IF ~a.ok
                 THEN /\ op' = "legacy.main"
                      /\ args' = NoArgs
                      /\ outcome' = Raised("SystemExit", <<50>>)
                      /\ pc' = "done"
                      /\ UNCHANGED <<gai, ipaddr, cmdstr, cmd, runs,
                                     printed, self, oids_table, session,
                                     polled>>
                 ELSE legacy_New("legacy.main",
                                 [ip_address |-> a.IP_ADDRESS,
                                  community_string |->
                                      StrVal(community_string),
                                  more |-> <<a.SEARCH_TYPE,
                                             a.SEARCH_WORD>>],
                                 connected)
         IN  IF \/ Len(argv) < 2
                \/ argv[2] \in {<<45, 104>>, <<45, 45, 104, 101, 108, 112>>}
             THEN /\ op' = "legacy.main"
                  /\ args' = NoArgs
                  /\ printed' =
                         <<<<10, 32, 32, 32, 32, 71, 101, 116, 83, 119, 105,
                             116, 99, 104, 80, 111, 114, 116, 115, 10, 32, 32,
                             32, 32, 85, 83, 65, 71, 69, 58, 32, 112, 121,
                             116, 104, 111, 110, 32, 71, 101, 116, 83, 119,
                             105, 116, 99, 104, 80, 111, 114, 116, 115, 46,
                             112, 121, 32, 91, 79, 80, 84, 73, 79, 78, 83, 93,
                             32, 73, 80, 95, 65, 68, 68, 82, 69, 83, 83, 32,
                             83, 78, 77, 80, 95, 67, 79, 77, 77, 85, 78, 73,
                             84, 89, 95, 83, 84, 82, 73, 78, 71, 32, 91, 83,
                             69, 65, 82, 67, 72, 95, 84, 89, 80, 69, 93, 32,
                             91, 83, 69, 65, 82, 67, 72, 95, 87, 79, 82, 68,
                             93, 10, 10, 32, 32, 32, 32, 68, 69, 83, 67, 82,
                             73, 80, 84, 73, 79, 78, 58, 32, 84, 104, 105,
                             115, 32, 115, 99, 114, 105, 112, 116, 32, 115,
                             104, 111, 119, 115, 32, 97, 32, 108, 105, 115,
                             116, 32, 111, 102, 32, 97, 108, 108, 32, 116,
                             104, 101, 32, 112, 111, 114, 116, 115, 32, 111,
                             110, 32, 97, 32, 115, 119, 105, 116, 99, 104, 32,
                             116, 104, 97, 116, 32, 109, 97, 116, 99, 104, 32,
                             99, 101, 114, 116, 97, 105, 110, 32, 99, 114,
                             105, 116, 101, 114, 105, 97, 46, 10, 10, 32, 32,
                             32, 32, 65, 82, 71, 85, 77, 69, 78, 84, 83, 58,
                             10, 32, 32, 32, 32, 32, 32, 32, 32, 82, 101, 113,
                             117, 105, 114, 101, 100, 32, 65, 114, 103, 115,
                             58, 10, 32, 32, 32, 32, 32, 32, 32, 32, 32, 32,
                             32, 32, 73, 80, 95, 65, 68, 68, 82, 69, 83, 83,
                             32, 32, 32, 32, 32, 32, 32, 32, 32, 32, 32, 32,
                             32, 32, 84, 104, 101, 32, 73, 80, 32, 65, 100,
                             100, 114, 101, 115, 115, 32, 111, 102, 32, 116,
                             104, 101, 32, 115, 119, 105, 116, 99, 104, 32,
                             121, 111, 117, 39, 100, 32, 108, 105, 107, 101,
                             32, 116, 111, 32, 99, 111, 110, 110, 101, 99,
                             116, 32, 116, 111, 46, 10, 32, 32, 32, 32, 32,
                             32, 32, 32, 32, 32, 32, 32, 67, 79, 77, 77, 85,
                             78, 73, 84, 89, 95, 83, 84, 82, 73, 78, 71, 32,
                             32, 32, 32, 32, 32, 32, 32, 84, 104, 101, 32, 83,
                             78, 77, 80, 32, 82, 101, 97, 100, 32, 67, 111,
                             109, 109, 117, 110, 105, 116, 121, 32, 115, 116,
                             114, 105, 110, 103, 32, 116, 111, 32, 117, 115,
                             101, 32, 116, 111, 32, 114, 101, 116, 114, 105,
                             101, 118, 101, 32, 105, 110, 102, 111, 32, 102,
                             114, 111, 109, 32, 116, 104, 101, 32, 115, 119,
                             105, 116, 99, 104, 46, 10, 32, 32, 32, 32, 32,
                             32, 32, 32, 79, 112, 116, 105, 111, 110, 97, 108,
                             32, 65, 114, 103, 115, 58, 10, 32, 32, 32, 32,
                             32, 32, 32, 32, 32, 32, 32, 32, 83, 69, 65, 82,
                             67, 72, 95, 84, 89, 80, 69, 32, 32, 32, 32, 32,
                             32, 32, 32, 32, 32, 32, 32, 32, 87, 104, 97, 116,
                             32, 107, 105, 110, 100, 32, 111, 102, 32, 116,
                             104, 105, 110, 103, 32, 116, 111, 32, 115, 101,
                             97, 114, 99, 104, 32, 102, 111, 114, 46, 32, 99,
                             104, 111, 105, 99, 101, 115, 32, 97, 114, 101,
                             32, 39, 100, 101, 115, 99, 39, 32, 111, 114, 32,
                             39, 118, 108, 97, 110, 39, 10, 32, 32, 32, 32,
                             32, 32, 32, 32, 32, 32, 32, 32, 83, 69, 65, 82,
                             67, 72, 95, 87, 79, 82, 68, 32, 32, 32, 32, 32,
                             32, 32, 32, 32, 32, 32, 32, 32, 84, 104, 101, 32,
                             107, 101, 121, 119, 111, 114, 100, 32, 116, 111,
                             32, 115, 101, 97, 114, 99, 104, 32, 102, 111,
                             114, 46, 32, 67, 97, 110, 32, 98, 101, 32, 97,
                             32, 102, 114, 97, 103, 109, 101, 110, 116, 32,
                             111, 102, 32, 97, 32, 112, 111, 114, 116, 32,
                             100, 101, 115, 99, 114, 105, 112, 116, 105, 111,
                             110, 32, 105, 110, 32, 116, 104, 101, 32, 99, 97,
                             115, 101, 32, 111, 102, 32, 97, 10, 32, 32, 32,
                             32, 32, 32, 32, 32, 32, 32, 32, 32, 32, 32, 32,
                             32, 32, 32, 32, 32, 32, 32, 32, 32, 32, 32, 32,
                             32, 32, 32, 32, 32, 32, 32, 32, 32, 100, 101,
                             115, 99, 32, 115, 101, 97, 114, 99, 104, 44, 32,
                             111, 114, 32, 105, 116, 32, 99, 97, 110, 32, 98,
                             101, 32, 97, 32, 110, 117, 109, 98, 101, 114, 32,
                             105, 110, 32, 116, 104, 101, 32, 99, 97, 115,
                             101, 32, 111, 102, 32, 97, 32, 118, 108, 97, 110,
                             32, 115, 101, 97, 114, 99, 104, 10, 32, 32, 32,
                             32, 32, 32, 32, 32, 79, 80, 84, 73, 79, 78, 83,
                             58, 10, 32, 32, 32, 32, 32, 32, 32, 32, 32, 32,
                             32, 32, 45, 104, 44, 32, 45, 45, 104, 101, 108,
                             112, 32, 32, 32, 32, 32, 32, 32, 32, 32, 32, 32,
                             32, 32, 32, 83, 104, 111, 119, 32, 116, 104, 105,
                             115, 32, 104, 101, 108, 112, 32, 109, 101, 115,
                             115, 97, 103, 101, 32, 97, 110, 100, 32, 113,
                             117, 105, 116, 46, 10, 10, 32, 32, 32, 32, 83,
                             89, 78, 79, 80, 83, 73, 83, 58, 10, 32, 32, 32,
                             32, 32, 32, 32, 32, 84, 104, 105, 115, 32, 115,
                             99, 114, 105, 112, 116, 44, 32, 119, 104, 101,
                             110, 32, 114, 117, 110, 44, 32, 119, 105, 108,
                             108, 32, 99, 111, 110, 110, 101, 99, 116, 32,
                             116, 111, 32, 116, 104, 101, 32, 115, 119, 105,
                             116, 99, 104, 32, 115, 112, 101, 99, 105, 102,
                             105, 101, 100, 32, 97, 115, 32, 73, 80, 95, 65,
                             68, 68, 82, 69, 83, 83, 32, 116, 104, 114, 111,
                             117, 103, 104, 32, 83, 78, 77, 80, 46, 32, 73,
                             116, 32, 119, 105, 108, 108, 32, 114, 101, 116,
                             114, 105, 101, 118, 101, 32, 97, 110, 100, 10,
                             32, 32, 32, 32, 32, 32, 32, 32, 112, 114, 105,
                             110, 116, 32, 97, 32, 102, 101, 119, 32, 98, 97,
                             115, 105, 99, 32, 112, 105, 101, 99, 101, 115,
                             32, 111, 102, 32, 105, 110, 102, 111, 114, 109,
                             97, 116, 105, 111, 110, 32, 97, 98, 111, 117,
                             116, 32, 116, 104, 97, 116, 32, 115, 119, 105,
                             116, 99, 104, 32, 40, 104, 111, 115, 116, 110,
                             97, 109, 101, 44, 32, 109, 97, 107, 101, 44, 32,
                             109, 111, 100, 101, 108, 41, 32, 97, 110, 100,
                             32, 119, 105, 108, 108, 32, 116, 104, 101, 110,
                             32, 97, 115, 115, 101, 109, 98, 108, 101, 32, 97,
                             32, 108, 105, 115, 116, 10, 32, 32, 32, 32, 32,
                             32, 32, 32, 111, 102, 32, 97, 108, 108, 32, 116,
                             104, 101, 32, 112, 111, 114, 116, 115, 32, 111,
                             110, 32, 116, 104, 101, 32, 115, 119, 105, 116,
                             99, 104, 32, 119, 104, 111, 39, 115, 32, 100,
                             101, 115, 99, 114, 105, 112, 116, 105, 111, 110,
                             32, 99, 111, 110, 116, 97, 105, 110, 115, 32,
                             101, 105, 116, 104, 101, 114, 32, 116, 104, 101,
                             32, 83, 69, 65, 82, 67, 72, 95, 87, 79, 82, 68,
                             32, 115, 112, 101, 99, 105, 102, 105, 101, 100,
                             44, 32, 111, 114, 32, 116, 104, 101, 32, 119,
                             111, 114, 100, 32, 34, 85, 78, 85, 83, 69, 68,
                             34, 10, 32, 32, 32, 32, 32, 32, 32, 32, 105, 102,
                             32, 110, 111, 32, 83, 69, 65, 82, 67, 72, 95, 87,
                             79, 82, 68, 32, 105, 115, 32, 112, 114, 111, 118,
                             105, 100, 101, 100, 46, 10, 32, 32, 32, 32, 32,
                             32, 32, 32, 70, 111, 114, 32, 101, 118, 101, 114,
                             121, 32, 112, 111, 114, 116, 32, 102, 111, 117,
                             110, 100, 44, 32, 116, 104, 105, 115, 32, 115,
                             99, 114, 105, 112, 116, 32, 119, 105, 108, 108,
                             32, 114, 101, 116, 114, 105, 101, 118, 101, 32,
                             97, 110, 100, 32, 100, 105, 115, 112, 108, 97,
                             121, 32, 116, 104, 101, 32, 112, 111, 114, 116,
                             32, 110, 97, 109, 101, 44, 32, 86, 76, 65, 78,
                             40, 115, 41, 44, 32, 97, 110, 100, 32, 102, 117,
                             108, 108, 32, 100, 101, 115, 99, 114, 105, 112,
                             116, 105, 111, 110, 32, 111, 102, 32, 116, 104,
                             101, 10, 32, 32, 32, 32, 32, 32, 32, 32, 112,
                             111, 114, 116, 46, 10, 32, 32, 32, 32>>>>
                  /\ outcome' = Returned(NoneVal)
                  /\ pc' = "done"
                  /\ UNCHANGED <<gai, ipaddr, cmdstr, cmd, runs, self,
                                 oids_table, session, polled>>
             ELSE parsed(parse_args(argv))

(***************************************************************************)
(* The operations together: any sequence of query operations, SwitchInfo   *)
(* constructions, calls of filterTable and printInfo, and runs of the      *)
(* program.                                                                *)
(***************************************************************************)
NextProgram ==
    \/ Next
    \/ import_SwitchInfo
    \/ main_module
    \/ NextFilter
    \/ legacy_main

SpecProgram == Init /\ [][NextProgram]_vars

(***************************************************************************)
(* Properties.                                                             *)
(***************************************************************************)
\* 'does not appear to be a valid' (test_snmp_invalid_address)
TextNotValid ==
    <<100, 111, 101, 115, 32, 110, 111, 116, 32, 97, 112, 112, 101, 97, 114,
    32, 116, 111, 32, 98, 101, 32, 97, 32, 118, 97, 108, 105, 100>>

\* 'Timeout' (test_snmp_timeout)
TextTimeout ==
    <<84, 105, 109, 101, 111, 117, 116>>

\* 'could not identify ' (test_snmptable_not_table)
TextCouldNotIdentify ==
    <<99, 111, 117, 108, 100, 32, 110, 111, 116, 32, 105, 100, 101, 110,
    116, 105, 102, 121, 32>>

\* ' as a table' (test_snmptable_not_table)
TextAsATable ==
    <<32, 97, 115, 32, 97, 32, 116, 97, 98, 108, 101>>

\* 'Unknown host'
TextUnknownHost ==
    <<85, 110, 107, 110, 111, 119, 110, 32, 104, 111, 115, 116>>


\* A call has been made whose address fails name resolution, or resolves to
\* a text that is no address literal
AddressFails == op # "" /\ (~gai.ok \/ ~ip_address(gai.addr).ok)
\* The call has ended and its command had failed
Failed == pc = "done" /\ runs = 1 /\ cmd.returncode # 0
\* The call has ended and its command had succeeded
Succeeded == pc = "done" /\ runs = 1 /\ cmd.returncode = 0
HasTimeoutMarker == Contains(NoResponseFrom, cmd.stderr)
HasUnknownHostMarker == Contains(UnknownHost, cmd.stderr)
HasTableMarker == Contains(WasThatATable, cmd.stderr)
RaisedSNMPError == outcome.kind = "raise" /\ outcome.exc = "SNMPError"
RaisedCatchAll == outcome.kind = "raise" /\ outcome.exc = "ChildProcessError"
RaisedNotATable ==
    /\ RaisedSNMPError
    /\ Contains(TextCouldNotIdentify \o args.oid.s \o TextAsATable,
                outcome.msg)

\* C1: in each of the four operations, a call whose address fails name
\* resolution or literal parsing has ended with the invalid-address
\* SNMPError, whose message names the address as given, and has run no
\* command.
C1_InvalidAddressRunsNothing ==
    AddressFails =>
        /\ pc = "done"
        /\ runs = 0
        /\ cmd = NoCmd
        /\ RaisedSNMPError
        /\ Contains(TextNotValid, outcome.msg)
        /\ Contains(args.ipaddress, outcome.msg)

\* C1 witness: snmptable called with a host name that does not resolve
C1_Witness ==
    /\ pc = "done"
    /\ op = "snmptable"
    /\ args.ipaddress = HostSw1
    /\ ~gai.ok
    /\ RaisedSNMPError
    /\ runs = 0

\* C2: in each of the four operations, a failed command whose stderr holds
\* 'No Response from' ends the call with the Timeout SNMPError, whose
\* message names the validated address and the port.
C2_TimeoutMarkerRaisesTimeout ==
    (Failed /\ HasTimeoutMarker) =>
        /\ RaisedSNMPError
        /\ Contains(TextTimeout, outcome.msg)
        /\ Contains(ipaddr \o <<58>> \o format(args.port), outcome.msg)

\* C2 witness: snmpgetbulk on a host name, so that the address named is the
\* resolved one, with other markers beside the timeout marker
C2_Witness ==
    /\ Failed /\ HasTimeoutMarker /\ HasTableMarker
    /\ op = "snmpgetbulk"
    /\ args.ipaddress = HostSw1
    /\ ipaddr = Addr10_0_0_2
    /\ args.port = IntVal(10000)
    /\ RaisedSNMPError

\* C3 as stated: snmptable, whenever the command failed and stderr holds
\* 'Was that a table?', raises the not-a-table SNMPError naming the OID.
C3_TableMarkerAlwaysNotATable ==
    (Failed /\ op = "snmptable" /\ HasTableMarker) => RaisedNotATable

\* C3 amended: snmptable, whenever the command failed and stderr holds
\* 'Was that a table?' and not 'No Response from', raises the not-a-table
\* SNMPError naming the OID.
C3_TableMarkerWithoutTimeoutNotATable ==
    (Failed /\ op = "snmptable" /\ HasTableMarker /\ ~HasTimeoutMarker)
        => RaisedNotATable

\* C3 witness: a table query of IF-MIB::ifEntry answered 'Was that a table?'
C3_Witness ==
    /\ Failed /\ op = "snmptable"
    /\ cmd.stderr = WasThatATable \o ErrText
    /\ args.oid.s = OidIfEntry
    /\ RaisedNotATable

\* C4: in each of the four operations, a failed command whose stderr holds
\* none of the known markers ends the call with ChildProcessError, whose
\* message holds the command line as run and the stderr text as it was.
C4_CatchAllCarriesCommandAndStderr ==
    (Failed /\ ~HasTimeoutMarker /\ ~HasUnknownHostMarker /\ ~HasTableMarker)
        => /\ RaisedCatchAll
           /\ Contains(cmdstr, outcome.msg)
           /\ Contains(cmd.stderr, outcome.msg)

\* C5: in each of the four operations, a failed command whose stderr holds
\* 'Unknown host' and not 'No Response from' ends the call with the
\* unknown-host SNMPError naming the address.
C5_UnknownHostMarkerRaisesUnknownHost ==
    (Failed /\ HasUnknownHostMarker /\ ~HasTimeoutMarker) =>
        /\ RaisedSNMPError
        /\ Contains(TextUnknownHost, outcome.msg)
        /\ Contains(ipaddr, outcome.msg)

\* The kind of error the priority order asks for
ExpectedErrorKind ==
    IF HasTimeoutMarker THEN "timeout"
    ELSE IF HasUnknownHostMarker THEN "unknown host"
    ELSE IF op = "snmptable" /\ HasTableMarker THEN "not a table"
    ELSE "catch-all"

\* The kind of error the call ended with, by exception class and message
RaisedErrorKind ==
    IF RaisedCatchAll THEN "catch-all"
    ELSE IF RaisedSNMPError /\ Contains(TextTimeout, outcome.msg)
         THEN "timeout"
    ELSE IF RaisedSNMPError /\ Contains(TextUnknownHost, outcome.msg)
         THEN "unknown host"
    ELSE IF RaisedNotATable THEN "not a table"
    ELSE "other"

\* C6: a failed command is classified by the first marker present in the
\* order timeout, unknown host, not a table (snmptable only), catch-all.
C6_FailureClassifiedByPriority ==
    Failed => RaisedErrorKind = ExpectedErrorKind

\* The decoded stdout of the command
StdoutText == decode(cmd.stdout)

\* C7: snmpget, when the command succeeded and stdout is valid UTF-8,
\* returns None if the decoded stdout holds 'No Such Instance' and the
\* decoded stdout itself, as a str, if not; it raises nothing.
C7_SnmpgetNoneOrDecodedText ==
    (Succeeded /\ op = "snmpget" /\ StdoutText.ok) =>
        outcome = IF Contains(NoSuchInstance, StdoutText.text)
                  THEN Returned(NoneVal)
                  ELSE Returned(StrVal(StdoutText.text))

\* C7 witness: snmpget answered b'Caf\xc3\xa9No Such Instance\n'
C7_Witness ==
    /\ Succeeded /\ op = "snmpget"
    /\ cmd.stdout = OutCafe \o NoSuchInstance \o <<10>>
    /\ StdoutText.text = TextCafe \o NoSuchInstance \o <<10>>
    /\ outcome = Returned(NoneVal)

\* The value part of a line of snmpgetbulk / snmpwalk output: what follows
\* the first ' = '
LineValue(line) ==
    LET t == decode(line).text
    IN  SubSeq(t, Find(Separator, t) + Len(Separator), Len(t))

\* A line that is valid UTF-8 and holds ' = '
LineWellFormed(line) ==
    decode(line).ok /\ Contains(Separator, decode(line).text)

\* C8: 'No Such Object' is an absent value as 'No Such Instance' is: None
\* from snmpget, and a pair whose value is None from snmpgetbulk and
\* snmpwalk.
C8_NoSuchObjectIsAbsent ==
    /\ (Succeeded /\ op = "snmpget" /\ StdoutText.ok
            /\ Contains(NoSuchObject, StdoutText.text))
           => outcome = Returned(NoneVal)
    /\ (Succeeded /\ op \in {"snmpgetbulk", "snmpwalk"}
            /\ outcome.kind = "return")
           => \A i \in 1..Len(outcome.value.items) :
                  Contains(NoSuchObject,
                           LineValue(splitlines(cmd.stdout)[i]))
                      => outcome.value.items[i].items[2] = NoneVal

\* C9: snmpget, when the command succeeded with a value V followed by one
\* line feed, returns V without the line feed.
C9_SnmpgetTrimsOneNewline ==
    (Succeeded /\ op = "snmpget" /\ StdoutText.ok
        /\ ~Contains(NoSuchInstance, StdoutText.text)
        /\ Len(cmd.stdout) >= 1 /\ cmd.stdout[Len(cmd.stdout)] = 10)
        => outcome = Returned(StrVal(SubSeq(StdoutText.text, 1,
                                            Len(StdoutText.text) - 1)))

\* The pair one line of output stands for: the text before the first ' = ',
\* and the text after it, or None when that holds 'No Such Instance'
ExpectedPair(line) ==
    LET t == decode(line).text
        k == Find(Separator, t)
    IN  TupleVal(<<StrVal(SubSeq(t, 1, k - 1)),
                   IF Contains(NoSuchInstance, LineValue(line))
                   THEN NoneVal ELSE StrVal(LineValue(line))>>)

\* The list of pairs the lines of stdout stand for, line by line
ExpectedPairs ==
    LET lines == splitlines(cmd.stdout)
    IN  Returned(ListVal([i \in 1..Len(lines) |-> ExpectedPair(lines[i])]))

\* C10 as stated: snmpgetbulk, when the command succeeded, returns one pair
\* per stdout line, in line order, the pair at position i being that of
\* line i.
C10_BulkOnePairPerLine ==
    (Succeeded /\ op = "snmpgetbulk") =>
        /\ outcome.kind = "return"
        /\ Len(outcome.value.items) = Len(splitlines(cmd.stdout))
        /\ \A i \in 1..Len(outcome.value.items) :
               LineWellFormed(splitlines(cmd.stdout)[i])
                   => outcome.value.items[i]
                          = ExpectedPair(splitlines(cmd.stdout)[i])

\* C10 amended: snmpgetbulk, when the command succeeded and every stdout
\* line is valid UTF-8 and holds ' = ', returns one pair per stdout line, in
\* line order, the pair at position i being that of line i.
C10_BulkOnePairPerWellFormedLine ==
    (Succeeded /\ op = "snmpgetbulk"
        /\ \A i \in 1..Len(splitlines(cmd.stdout)) :
               LineWellFormed(splitlines(cmd.stdout)[i]))
        => outcome = ExpectedPairs

\* C10 witness: two lines, the first with 'No Such Instance', the second a
\* value
C10_Witness ==
    /\ Succeeded /\ op = "snmpgetbulk"
    /\ cmd.stdout = LineNoInstance \o <<10>> \o LinePlain \o <<10>>
    /\ Len(outcome.value.items) = 2
    /\ outcome.value.items[1].items[2] = NoneVal
    /\ outcome.value.items[2].items[2].tag = "str"

\* '.1.5'
TextOid15 ==
    <<46, 49, 46, 53>>

\* 'a = b'
TextAEqualsB ==
    <<97, 32, 61, 32, 98>>


\* The pair at position i of the list returned
PairAt(i) == outcome.value.items[i]
\* The decoded line i of stdout
LineText(i) == decode(splitlines(cmd.stdout)[i]).text

\* C11: in snmpgetbulk and snmpwalk every pair returned has two components:
\* the OID is the text of its line before the first ' = ' (so it holds no
\* ' = '), and the value is all the text after that ' = ', kept whole, or
\* None when that text holds 'No Such Instance'.
C11_SplitAtFirstSeparatorOnly ==
    (Succeeded /\ op \in {"snmpgetbulk", "snmpwalk"}
        /\ outcome.kind = "return")
        => \A i \in 1..Len(outcome.value.items) :
               /\ PairAt(i).tag = "tuple"
               /\ Len(PairAt(i).items) = 2
               /\ PairAt(i).items[1].tag = "str"
               /\ ~Contains(Separator, PairAt(i).items[1].s)
               /\ \E rest \in {SubSeq(LineText(i), k, Len(LineText(i))) :
                                  k \in 1..(Len(LineText(i)) + 1)} :
                      /\ LineText(i)
                             = PairAt(i).items[1].s \o Separator \o rest
                      /\ PairAt(i).items[2]
                             = IF Contains(NoSuchInstance, rest)
                               THEN NoneVal ELSE StrVal(rest)

\* C11 witness: snmpwalk answered b'.1.5 = a = b\n'
C11_Witness ==
    /\ Succeeded /\ op = "snmpwalk"
    /\ cmd.stdout = LineSepInValue \o <<10>>
    /\ outcome
           = Returned(ListVal(<<TupleVal(<<StrVal(TextOid15),
                                           StrVal(TextAEqualsB)>>)>>))


\* What the other one of snmpgetbulk and snmpwalk makes of the same command
\* line and the same completed command
SiblingResult ==
    IF op = "snmpwalk"
    THEN snmpgetbulk_result(cmdstr, cmd, ipaddr, args.port)
    ELSE snmpwalk_result(cmdstr, cmd, ipaddr, args.port)

\* C12: for every exit status, stdout and stderr, snmpwalk and snmpgetbulk
\* end alike: the call that ran ends as the other operation would on the
\* same completed command, with the same list or the same error.
C12_WalkAndBulkAgree ==
    (pc = "done" /\ runs = 1 /\ op \in {"snmpgetbulk", "snmpwalk"})
        => outcome = SiblingResult

\* C12 witness: snmpgetbulk answered two lines, one of them 'No Such
\* Instance', and ended with the list snmpwalk makes of them
C12_Witness ==
    /\ Succeeded /\ op = "snmpgetbulk"
    /\ cmd.stdout = LinePlain \o <<10>> \o LineNoInstance \o <<10>>
    /\ outcome.kind = "return"
    /\ Len(outcome.value.items) = 2
    /\ outcome.value.items[2].items[2] = NoneVal
    /\ outcome = snmpwalk_result(cmdstr, cmd, ipaddr, args.port)


\* The lines of stdout as snmptable sees them
TableLines == splitlines(cmd.stdout)

\* Row d of the list returned says what line l says: the keys and the
\* values are str, none holds the delimiter, the keys joined by the
\* delimiter are the header line and the values so joined are line l
RowSaysLine(d, header, l) ==
    /\ d.tag = "dict"
    /\ \A j \in 1..Len(d.items) :
           /\ d.items[j].items[1].tag = "str"
           /\ d.items[j].items[2].tag = "str"
           /\ ~Contains(<<delimiter>>, d.items[j].items[1].s)
           /\ ~Contains(<<delimiter>>, d.items[j].items[2].s)
    /\ join(<<delimiter>>,
            [j \in 1..Len(d.items) |-> d.items[j].items[1].s]) = header
    /\ join(<<delimiter>>,
            [j \in 1..Len(d.items) |-> d.items[j].items[2].s]) = l

\* C13: snmptable, on a successful command (here: with no sortkey, stdout
\* valid UTF-8 and at least three lines long), drops the first two lines,
\* takes the third as the header and returns one mapping per line after
\* it, in order, whose keys are the header fields in header order and whose
\* values are the cells of that line.
C13_TableOneMappingPerDataLine ==
    (Succeeded /\ op = "snmptable" /\ args.sortkey = NoneVal
        /\ decode_all(TableLines).ok /\ Len(TableLines) >= 3)
        => /\ outcome.kind = "return"
           /\ Len(outcome.value.items) = Len(TableLines) - 3
           /\ \A i \in 1..Len(outcome.value.items) :
                  RowSaysLine(outcome.value.items[i],
                              decode(TableLines[3]).text,
                              decode(TableLines[i + 3]).text)


\* The rows in the order the device reported them
DeviceRows ==
    DictReader(decode_all(SubSeq(TableLines, 3, Len(TableLines))).lines).rows

\* The text row d holds in the sortkey column
SortText(d) == dict_get(d, args.sortkey).value.s

\* C14: when snmptable returns, with a sortkey its rows are the device's
\* rows moved by a permutation that puts a row before another only if its
\* sortkey text is not greater (as str), and rows with equal sortkey text
\* keep the order they came in; with no sortkey the rows are in the
\* device's order.
C14_SortedStablePermutation ==
    (Succeeded /\ op = "snmptable" /\ outcome.kind = "return")
        => LET rows == outcome.value.items
               n == Len(DeviceRows)
           IN  IF args.sortkey = NoneVal THEN rows = DeviceRows
               ELSE /\ Len(rows) = n
                    /\ \E p \in [1..n -> 1..n] :
                           /\ \A i, j \in 1..n : i # j => p[i] # p[j]
                           /\ \A i \in 1..n : rows[i] = DeviceRows[p[i]]
                           /\ \A i, j \in 1..n :
                                  i < j =>
                                      /\ ~StrLess(SortText(rows[j]),
                                                  SortText(rows[i]))
                                      /\ SortText(rows[i]) = SortText(rows[j])
                                             => p[i] < p[j]

\* C14 witness: the device reported row 2 before row 1 and snmptable,
\* sorting by ifIndex, returned row 1 first
C14_Witness ==
    /\ Succeeded /\ op = "snmptable"
    /\ args.sortkey = StrVal(KeyIfIndex)
    /\ cmd.stdout = TableTitle \o <<10, 10>> \o TableHeader \o <<10>>
                        \o Row2 \o <<10>> \o Row1 \o <<10>>
    /\ outcome.kind = "return"
    /\ Len(outcome.value.items) = 2
    /\ SortText(outcome.value.items[1]) = <<49>>
    /\ SortText(outcome.value.items[2]) = <<50>>


\* The call in progress has passed validate_ip_address
AddressValidated == op # "" /\ ~AddressFails

\* What the statements after run() make of the completed command
ResultOfCommand ==
    IF op = "snmpget" THEN snmpget_result(cmdstr, cmd, ipaddr, args.port)
    ELSE IF op = "snmpgetbulk"
         THEN snmpgetbulk_result(cmdstr, cmd, ipaddr, args.port)
    ELSE IF op = "snmpwalk"
         THEN snmpwalk_result(cmdstr, cmd, ipaddr, args.port)
    ELSE snmptable_result(cmdstr, cmd, ipaddr, args.port, args.oid.s,
                          args.sortkey)

\* Where a validated call stands: before run() nothing has run and there is
\* no result; after run() the command has run once and there is no result
\* yet; at the end the command has run once and the result is made of the
\* completed command
OneRunBeforeResult ==
    /\ runs <= 1
    /\ AddressValidated =>
           /\ pc \in {"run", "ran", "done"}
           /\ pc = "run" => runs = 0 /\ cmd = NoCmd /\ outcome = Pending
           /\ pc = "ran" => runs = 1 /\ outcome = Pending
           /\ pc = "done" => runs = 1 /\ outcome = ResultOfCommand

\* The call ended with an exception of the parse statements
RaisedInParsing ==
    /\ outcome.kind = "raise"
    /\ outcome.exc \in {"UnicodeDecodeError", "IndexError", "KeyError",
                        "TypeError", "Error"}

\* C15 as stated: every call whose address validates runs the command
\* exactly once, never again, makes its result only of the completed
\* command, and ends with a parsed result or one classified error.
C15_OneRunThenResultOrClassifiedError ==
    /\ OneRunBeforeResult
    /\ (AddressValidated /\ pc = "done")
           => \/ outcome.kind = "return"
              \/ RaisedSNMPError
              \/ RaisedCatchAll

\* C15 amended: every call whose address validates runs the command
\* exactly once, never again, makes its result only of the completed
\* command, and ends with a parsed result, with one classified error when
\* the command failed, or with an exception of the parse statements
\* (UnicodeDecodeError, IndexError, KeyError, TypeError, csv.Error) when the
\* command succeeded and its output cannot be parsed.
C15_OneRunThenResultOrError ==
    /\ OneRunBeforeResult
    /\ (AddressValidated /\ pc = "done")
           => \/ outcome.kind = "return" /\ cmd.returncode = 0
              \/ (RaisedSNMPError \/ RaisedCatchAll) /\ cmd.returncode # 0
              \/ RaisedInParsing /\ cmd.returncode = 0

\* C15 witness: snmptable on a host name that resolved ran its command
\* once and returned the two rows parsed from its output
C15_Witness ==
    /\ pc = "done" /\ op = "snmptable"
    /\ args.ipaddress = HostSw1 /\ ipaddr = Addr10_0_0_2
    /\ runs = 1
    /\ cmd.returncode = 0
    /\ outcome.kind = "return"
    /\ Len(outcome.value.items) = 2


\* C16: for a valid IPv4 or IPv6 address literal, validate_ip_address
\* returns the address in its canonical string form as a str, made of the
\* first candidate of name resolution, and validating that result again
\* returns the same str.
C16_LiteralValidatesToItself ==
    (op = "validate_ip_address" /\ ip_address(args.ipaddress).ok)
        => LET canonical == StrVal(ip_address(args.ipaddress).text)
           IN  /\ pc = "done" => gai.ok /\ outcome = Returned(canonical)
               /\ pc = "again" => outcome = Returned(canonical)

\* 'Invalid Address'
TextInvalidAddress ==
    <<73, 110, 118, 97, 108, 105, 100, 32, 65, 100, 100, 114, 101, 115,
    115>>

\* 'Unable to communicate'
TextUnableToCommunicate ==
    <<85, 110, 97, 98, 108, 101, 32, 116, 111, 32, 99, 111, 109, 109, 117,
    110, 105, 99, 97, 116, 101>>


\* C17: a call of SwitchInfo with an address that fails validation (no
\* answer of the resolver makes it an address) has ended by returning None:
\* no instance is made, one message is printed, which holds 'Invalid
\* Address', and no command has been run, neither the connection test nor
\* a query of __init__.
C17_InvalidAddressYieldsNone ==
    (op = "SwitchInfo" /\ pc = "done"
         /\ \A answer \in getaddrinfo(args.ip_address) :
                validate_ip_address(args.ip_address, answer).kind = "raise")
        => /\ outcome = Returned(NoneVal)
           /\ ~self.made
           /\ runs = 0
           /\ cmd = NoCmd
           /\ Len(printed) = 1
           /\ Contains(TextInvalidAddress, printed[1])

\* The calls whose connection test exits with a status other than 0 where
\* the tests run: no host answers at 127.99.99.99, and the agent at
\* 127.0.0.1:10000 does not know 'bogus_community_string'
ConnectionTestFails ==
    \/ args.ip_address = Addr127_99_99_99
    \/ args.community_string = StrVal(CommunityBogus)

\* C18: a call of SwitchInfo for a valid address whose connection test
\* exits with a status other than 0 has ended by returning None: no
\* instance is made, one message is printed, which holds 'Unable to
\* communicate' and the address with the port, and the connection test is
\* the only command that has been run; and an instance is made only after
\* a connection test has been run.
C18_FailedConnectionTestYieldsNone ==
    /\ (op = "SwitchInfo" /\ pc = "done" /\ ConnectionTestFails)
           => /\ outcome = Returned(NoneVal)
              /\ ~self.made
              /\ runs = 1
              /\ cmd.returncode # 0
              /\ Len(printed) = 1
              /\ Contains(TextUnableToCommunicate, printed[1])
              /\ Contains(args.ip_address \o <<58>> \o format(args.port),
                          printed[1])
    /\ (op = "SwitchInfo" /\ self.made) => runs >= 1

\* C19: at every point of the polling loop of __init__, and after it,
\* portTable holds the entry of an interface if and only if the loop has
\* been through that interface and its ifType is '6' (ethernetCsmacd): one
\* entry for each such index, in the order of the index list, and none for
\* an interface of another type.  After the loop this is every ethernet
\* interface of the switch; portTable is then None when there is none.
C19_PortTableHoldsEthernetInOrder ==
    LET interfaces == session.interfaces
        ethernet == {i \in 1..polled : interfaces[i].type = <<54>>}
        \* the index of the k-th ethernet interface
        index(k) ==
            CHOOSE i \in ethernet : Cardinality({j \in ethernet : j <= i}) = k
        entry(make, interface) ==
            Interface(IF make = NoneVal THEN NoneVal
                      ELSE StrVal(interface.vlan),
                      StrVal(interface.name), StrVal(interface.desc))
        holds(table, make) ==
            /\ Len(table) = Cardinality(ethernet)
            /\ \A k \in 1..Len(table) :
                   table[k] = entry(make, interfaces[index(k)])
    IN  op = "legacy.__init__" =>
            /\ polled \in 0..Len(interfaces)
            /\ pc = "legacy_loop" => self.portTable.tag = "list"
            /\ pc \in {"filter", "done"} =>
                   /\ polled = Len(interfaces)
                   /\ self.portTable = NoneVal <=> ethernet = {}
            /\ holds(IF self.portTable = NoneVal THEN <<>>
                     ELSE self.portTable.items,
                     dict_get(self.swInfo,
                              StrVal(<<109, 97, 107, 101>>)).value)

\* C19 witness: the loop has been through the two interfaces of a switch,
\* Vl1 of ifType '53' and then Gi0/2 of ifType '6', and has not yet ended;
\* portTable holds the one entry of Gi0/2
C19_Witness ==
    /\ op = "legacy.__init__" /\ pc = "legacy_loop"
    /\ Len(session.interfaces) = 2
    /\ polled = 2
    /\ session.interfaces[1].type = <<53, 51>>
    /\ session.interfaces[2].type = <<54>>
    /\ self.portTable.tag = "list"
    /\ Len(self.portTable.items) = 1
    /\ dict_get(self.portTable.items[1],
                StrVal(<<110, 97, 109, 101>>)).value
           = StrVal(<<71, 105, 48, 47, 50>>)

\* The port matches the filter as the documentation has it: by 'desc', its
\* description contains the keyword; by 'vlan', its native VLAN is the
\* keyword
PortMatches(interface, filter_type, keyword) ==
    LET cell == dict_get(interface, filter_type).value
    IN  /\ cell.tag = "str"
        /\ IF filter_type = StrVal(KeyDesc) THEN Contains(keyword, cell.s)
           ELSE cell.s = keyword

\* C20: filterTable called with filter_type 'desc' or 'vlan' on a
\* non-empty portTable returns, leaves portTable as it was, and sets result
\* to the list, in portTable order, of exactly the ports that match the
\* keyword, the keyword being 'UNUSED' for 'desc' and '2' for 'vlan' when
\* none is given.
C20_ResultIsMatchingSubsequence ==
    (op = "filterTable" /\ pc = "done"
         /\ args.self.tag = "list" /\ args.self.items # <<>>) =>
        LET keyword ==
                IF args.filter_keyword # NoneVal THEN args.filter_keyword.s
                ELSE IF args.filter_type = StrVal(KeyDesc)
                     THEN <<85, 78, 85, 83, 69, 68>>
                     ELSE <<50>>
            matches(interface) ==
                PortMatches(interface, args.filter_type, keyword)
        IN  /\ outcome = Returned(NoneVal)
            /\ self.portTable = args.self
            /\ self.result = ListVal(SelectSeq(args.self.items, matches))

\* What the operation in progress makes of a completed command c
ResultOf(c) ==
    IF op = "snmpget" THEN snmpget_result(cmdstr, c, ipaddr, args.port)
    ELSE IF op = "snmpgetbulk"
         THEN snmpgetbulk_result(cmdstr, c, ipaddr, args.port)
    ELSE IF op = "snmpwalk"
         THEN snmpwalk_result(cmdstr, c, ipaddr, args.port)
    ELSE snmptable_result(cmdstr, c, ipaddr, args.port, args.oid.s,
                          args.sortkey)

\* C21: a query operation whose command exited with status 0 raises neither
\* an SNMPError nor the catch-all ChildProcessError and ends exactly as it
\* would with an empty stderr, whatever stderr holds; one whose command
\* exited with another status returns no value, raises one of those two
\* errors, and ends exactly as it would with an empty stdout.
C21_ClassificationOnlyOnFailure ==
    /\ Succeeded =>
           /\ ~RaisedSNMPError
           /\ ~RaisedCatchAll
           /\ outcome = ResultOf([cmd EXCEPT !.stderr = <<>>])
    /\ Failed =>
           /\ RaisedSNMPError \/ RaisedCatchAll
           /\ outcome = ResultOf([cmd EXCEPT !.stdout = <<>>])

\* C21 witness: snmpget whose command exited with status 0 and left both
\* 'No Response from' and 'Was that a table?' on stderr returned the text
\* of stdout
C21_Witness ==
    /\ Succeeded
    /\ op = "snmpget"
    /\ HasTimeoutMarker /\ HasTableMarker
    /\ outcome.kind = "return"
    /\ outcome.value.tag = "str"
    /\ outcome.value.s # <<>>

\* C22: __init__ from the end of its polling loop.  While the loop runs,
\* result is not assigned.  filterTable is run only on a portTable that is
\* not empty, for a filter_type that is given.
\* With no ethernet port found, __init__ ends with portTable and result both
\* None, whatever the filter; with a port found and no filter_type, result
\* is the whole portTable, one entry for each ethernet interface.  Whenever
\* __init__ or filterTable has ended, result is None or a list whose
\* elements are all in portTable.
C22_ResultIsNoneOrWithinPortTable ==
    LET given == args.filter_type.tag = "str" /\ args.filter_type.s # <<>>
        ethernet == {i \in 1..Len(session.interfaces) :
                         session.interfaces[i].type = <<54>>}
    IN  /\ op = "legacy.__init__" =>
               /\ pc \in {"legacy_loop", "filter", "done"}
               /\ pc = "legacy_loop" =>
                      self.result = Unset /\ outcome = Pending
               /\ pc = "filter" => ethernet # {} /\ given
               /\ (pc = "done" /\ ethernet = {}) =>
                      /\ self.portTable = NoneVal
                      /\ self.result = NoneVal
                      /\ outcome = Returned(NoneVal)
               /\ (pc = "done" /\ ethernet # {} /\ ~given) =>
                      /\ self.portTable.tag = "list"
                      /\ Len(self.portTable.items) = Cardinality(ethernet)
                      /\ self.result = self.portTable
                      /\ outcome = Returned(NoneVal)
        /\ (op \in {"legacy.__init__", "filterTable"} /\ pc = "done") =>
               \/ self.result = NoneVal
               \/ /\ self.result.tag = "list"
                  /\ self.portTable.tag = "list"
                  /\ \A i \in 1..Len(self.result.items) :
                         \E j \in 1..Len(self.portTable.items) :
                             self.result.items[i] = self.portTable.items[j]

\* C22 witness: the switch has one interface, which is no ethernet port,
\* and the 'desc' filter was asked for; 'Gathering port data...' has been
\* printed, and portTable and result are None
C22_Witness ==
    /\ op = "legacy.__init__" /\ pc = "done"
    /\ Len(session.interfaces) = 1
    /\ session.interfaces[1].type = <<53, 51>>
    /\ args.filter_type = StrVal(KeyDesc)
    /\ Len(printed) >= 1
    /\ self.portTable = NoneVal
    /\ self.result = NoneVal
    /\ outcome = Returned(NoneVal)

\* C23: the module-level table oids holds what the module gave it, every
\* name and OID string and both nativeVlan entries, in every state any
\* sequence of query operations, SwitchInfo constructions, filterTable and
\* printInfo calls and runs of the program can reach.
C23_OidsNeverChange ==
    oids_table = OidsTable

\* C23 witness: a construction has ended for a Cisco switch with an
\* ethernet port; it has asked the Session for oids['sysDescr'] first, for
\* oids['sysName'] next and for oids['cisco']['nativeVlan'] of the first
\* interface in its loop, each as the table gives it, and the table is as
\* the module defined it
C23_Witness ==
    /\ op = "legacy.__init__" /\ pc = "done"
    /\ self.made
    /\ self.result.tag = "list"
    /\ self.result.items # <<>>
    /\ Len(session.asked) >= 9
    /\ session.asked[1]
           = request("get",
                     \* '.1.3.6.1.2.1.1.1.0'
                     <<46, 49, 46, 51, 46, 54, 46, 49, 46, 50, 46, 49, 46,
                         49, 46, 49, 46, 48>>,
                     0)
    /\ session.asked[2]
           = request("get",
                     \* '.1.3.6.1.2.1.1.5.0'
                     <<46, 49, 46, 51, 46, 54, 46, 49, 46, 50, 46, 49, 46,
                         49, 46, 53, 46, 48>>,
                     0)
    /\ session.asked[6]
           = request("get",
                     \* '.1.3.6.1.4.1.9.9.68.1.2.2.1.2'
                     <<46, 49, 46, 51, 46, 54, 46, 49, 46, 52, 46, 49, 46,
                         57, 46, 57, 46, 54, 56, 46, 49, 46, 50, 46, 50, 46,
                         49, 46, 50>>,
                     1)
    /\ oids_table = OidsTable

\* The lines of stdout that do not hold ' = '
LinesWithoutSeparator ==
    {i \in 1..Len(splitlines(cmd.stdout)) :
         ~Contains(Separator, splitlines(cmd.stdout)[i])}

\* C24: snmpgetbulk or snmpwalk whose command exited with status 0 and left
\* a line without ' = ' on stdout returns no list: it raises IndexError, or
\* UnicodeDecodeError when a line that is not valid UTF-8 comes at or before
\* the first line without ' = ', and never an SNMPError or the catch-all
\* ChildProcessError.
C24_LineWithoutSeparatorFailsCall ==
    (Succeeded /\ op \in {"snmpgetbulk", "snmpwalk"}
         /\ LinesWithoutSeparator # {}) =>
        LET lines == splitlines(cmd.stdout)
            first == Min(LinesWithoutSeparator)
        IN  /\ outcome.kind = "raise"
            /\ outcome.value = NoneVal
            /\ ~RaisedSNMPError
            /\ ~RaisedCatchAll
            /\ outcome.exc =
                   IF \A i \in 1..first : decode(lines[i]).ok
                   THEN "IndexError" ELSE "UnicodeDecodeError"

\* C24 witness: snmpwalk whose command left a well-formed line and then a
\* line with no ' = ' raised IndexError
C24_Witness ==
    /\ Succeeded
    /\ op = "snmpwalk"
    /\ cmd.stdout = LinePlain \o <<10>> \o LineNoSep \o <<10>>
    /\ outcome = Raised("IndexError", <<>>)

====
